---- MODULE Spec2Model ----
(***************************************************************************)
(* Model of example/build.c of programmable_build: the incremental build   *)
(* of static-library targets (compileStaticLib), the command synthesizer   *)
(* (constructCompileCmd), the compile log (parseLog / writeLog) and the    *)
(* sequence of steps of main(), over several consecutive runs that share   *)
(* one filesystem.                                                         *)
(*                                                                         *)
(* Strings are modelled as sequences of tokens and a token as a sequence   *)
(* of atoms, so that a path is <<dir, ..., name, ext>>, a command is the   *)
(* sequence of its space-separated words, and a line of the log file is    *)
(* the sequence of its quotes, commas and words.  The platform is Linux    *)
(* (the prb_PLATFORM_LINUX branches).                                      *)
(***************************************************************************)
EXTENDS Integers, Sequences, FiniteSets, TLC

(* ------------------------------ bounds -------------------------------- *)

\* Number of consecutive runs of the build program.
MaxRuns == 2

\* Number of distinct contents (preprocessed hashes) a source file can have.
MaxHash == 2

\* Number of child processes that may fail in one run.
MaxFaults == 1

(* ------------------------- strings and paths -------------------------- *)

Last(s) == s[Len(s)]

SeqToSet(s) == {s[i] : i \in 1..Len(s)}

\* Concatenation of a sequence of sequences.
RECURSIVE Flatten(_)
Flatten(ss) ==
    IF ss = <<>> THEN <<>> ELSE Head(ss) \o Flatten(Tail(ss))

prb_pathJoin(dir, entry) == dir \o entry

\* The file name: <<name, ext>>.
prb_getLastEntryInPath(path) == SubSeq(path, Len(path) - 1, Len(path))

prb_replaceExt(path, ext) == [path EXCEPT ![Len(path)] = ext]

prb_getParentDir(path) == SubSeq(path, 1, Len(path) - 2)

\* Extensions whose text ends in "obj".
ExtEndsWithObj == {"obj"}

\* prb_strEndsWith(path, ".<ext>")
strEndsWithDotExt(path, ext) == Len(path) >= 2 /\ Last(path) = ext

\* prb_strEndsWith(path, "obj")
\* Every output taken for an object.
strEndsWithObj_Always(path) == TRUE

strEndsWithObj(path) == Len(path) >= 1 /\ Last(path) \in ExtEndsWithObj

(* --------------------------- configuration ---------------------------- *)

rootDir == <<"root">>

\* The library targets, in the order main() creates their jobs.
Libs == <<"A", "B">>

LibNames == SeqToSet(Libs)

\* lang == Lang_Cpp
LibCpp(name) == name = "B"

\* includeDirRelToDownload
LibIncludeRel(name) == IF name = "A" THEN <<"lib">> ELSE <<"src">>

\* sourcesRelToDownload: glob patterns <<subdir, name or "*", ext>>.
LibSources(name) ==
    IF name = "A" THEN << <<"lib", "*", "c">> >>
    ELSE << <<"src", "m", "cc">>, <<"src", "n", "cc">> >>

\* The source files of the download directories (what git clone delivers).
SourceUniverse ==
    { <<"root", "A", "lib", "x", "c">>,
      <<"root", "B", "src", "m", "cc">>,
      <<"root", "B", "src", "n", "cc">> }

\* The command-line argument vectors tried.
ArgChoices ==
    { <<"build", "gcc", "debug">>,
      <<"build", "clang", "release">>,
      <<"build", "msvc", "debug">>,
      <<"build", "gcc", "fast">>,
      <<"build", "gcc">>,
      <<"build", "gcc", "debug", "-v">> }

\* The compile flags main() passes to getStaticLibInfo, per revision of the
\* build description.
FlagChoices == { << <<"-DV1">> >>, << <<"-DV2">> >> }

\* The argument vectors main() accepts on Linux.
ValidArgs == { <<"build", "gcc", "debug">>, <<"build", "clang", "release">> }

\* The changes between runs that are tried: the source files that get
\* edited, the ones that get removed, the libraries whose flags change.
Editable == { <<"root", "A", "lib", "x", "c">>, <<"root", "B", "src", "m", "cc">> }

Removable == { <<"root", "A", "lib", "x", "c">>, <<"root", "B", "src", "n", "cc">> }

Reflagged == {"B"}

\* The object files that get deleted by hand between runs, by file name.
Cleanable == {"n"}

(* ------------------------ Command Synthesizer ------------------------- *)

\* Only the extension of preprocessed C is recognised.
fileIsPreprocessed_OnlyI(name) == strEndsWithDotExt(name, "i")

fileIsPreprocessed(name) ==
    strEndsWithDotExt(name, "i") \/ strEndsWithDotExt(name, "ii")

\* The two prb_assert of constructCompileCmd: TRUE when one of them fails.
constructCompileCmdAsserts(inputPath, outputPath) ==
    fileIsPreprocessed(Last(inputPath)) /\ fileIsPreprocessed(outputPath)

\* Appends text to the last word of a command (a segment added without a
\* leading space).
GlueToLast(cmd, atoms) == [cmd EXCEPT ![Len(cmd)] = cmd[Len(cmd)] \o atoms]

\* inputPath is a sequence of paths (one, or several joined by spaces),
\* flags and linkFlags are sequences of words.
constructCompileCmd(proj, flags, inputPath, outputPath, linkFlags) ==
    LET compiler == proj.compiler
        prog == CASE compiler = "Gcc" -> << <<"gcc">> >>
                  [] compiler = "Clang" -> << <<"clang">> >>
                  [] compiler = "Msvc" ->
                       << <<"cl">>, <<"/nologo">>, <<"/diagnostics:column">>, <<"/FC">> >>
        opt == IF proj.release
               THEN (IF compiler = "Msvc" THEN << <<"/O2">> >> ELSE << <<"-Ofast">> >>)
               ELSE (IF compiler = "Msvc" THEN << <<"/Zi">> >> ELSE << <<"-g">> >>)
        inIsPreprocessed == fileIsPreprocessed(Last(inputPath))
        outIsPreprocess == fileIsPreprocessed(outputPath)
        pre == IF outIsPreprocess
               THEN (IF compiler = "Msvc"
                     THEN << <<"/P">>, <<"/Fi">> \o outputPath >>
                     ELSE << <<"-E">> >>)
               ELSE <<>>
        nopre == IF inIsPreprocessed
                 THEN (CASE compiler = "Gcc" -> << <<"-fpreprocessed">> >>
                         [] compiler = "Clang" -> <<>>
                         [] compiler = "Msvc" -> << <<"/Yc">> >>)
                 ELSE <<>>
        isObj == strEndsWithObj(outputPath)
        c == IF isObj THEN << <<"-c">> >> ELSE <<>>
        io == IF compiler = "Msvc"
              THEN LET objPath == IF isObj THEN outputPath
                                  ELSE prb_replaceExt(outputPath, "obj")
                   IN  << <<"/Fo">> \o objPath >>
                         \o (IF isObj THEN <<>> ELSE << <<"/Fe">> \o outputPath >>)
              ELSE inputPath \o << <<"-o">>, outputPath >>
        base == prog \o opt \o pre \o nopre \o flags \o c \o io
    IN  IF linkFlags # <<>>
        THEN (IF compiler = "Msvc"
              THEN GlueToLast(base, <<"-link">>) \o << <<"-incremental:no">> >> \o linkFlags
              ELSE base \o linkFlags) \o linkFlags
        ELSE base

(* --------------------------- Compile Cache ---------------------------- *)

Quote == <<"\"">>

Comma == <<",">>

Newline == <<"\n">>

\* A one-word string.
Str(word) == << word >>

\* logColumnNames
logColumnNames == << Str(<<"objPath">>), Str(<<"compileCmd">>), Str(<<"preprocessedHash">>) >>

HexDigits == <<"0", "1", "2", "3", "4", "5", "6", "7", "8", "9", "A", "B", "C", "D", "E", "F">>

\* prb_fmt("0x%lX", hash), for a hash of one hexadecimal digit.
fmtHash(hash) == Str(<<"0x", HexDigits[hash + 1]>>)

\* prb_parseNumber: the kind of number and its value.
prb_parseNumber(str) ==
    IF /\ Len(str) = 1
       /\ Len(str[1]) = 2
       /\ str[1][1] = "0x"
       /\ \E d \in 1..Len(HexDigits) : HexDigits[d] = str[1][2]
    THEN [kind |-> "U64",
          parsedU64 |-> (CHOOSE d \in 1..Len(HexDigits) : HexDigits[d] = str[1][2]) - 1]
    ELSE [kind |-> "None", parsedU64 |-> 0]

\* prb_strFind of a quote character: the index of the first one, 0 if none.
FindQuote(str) ==
    IF \E i \in 1..Len(str) : str[i] = Quote
    THEN CHOOSE i \in 1..Len(str) : str[i] = Quote /\ \A j \in 1..(i - 1) : str[j] # Quote
    ELSE 0

getStrInQuotes(str) ==
    LET first == FindQuote(str)
        rest == SubSeq(str, first + 1, Len(str))
        second == FindQuote(rest)
    IN  IF first # 0 /\ second # 0
        THEN [success |-> TRUE,
              inquotes |-> SubSeq(rest, 1, second - 1),
              past |-> SubSeq(rest, second + 1, Len(rest))]
        ELSE [success |-> FALSE, inquotes |-> <<>>, past |-> <<>>]

get3StrInQuotes(str) ==
    LET get1 == getStrInQuotes(str)
        get2 == getStrInQuotes(get1.past)
        get3 == getStrInQuotes(get2.past)
    IN  IF get1.success /\ get2.success /\ get3.success
        THEN [success |-> TRUE, strings |-> <<get1.inquotes, get2.inquotes, get3.inquotes>>]
        ELSE [success |-> FALSE, strings |-> <<>>]

\* prb_createLineIter / prb_lineIterNext: the lines of a text, without their
\* line ends.
RECURSIVE Lines(_)
Lines(str) ==
    IF str = <<>> THEN <<>>
    ELSE IF \E i \in 1..Len(str) : str[i] = Newline
         THEN LET n == CHOOSE i \in 1..Len(str) :
                          str[i] = Newline /\ \A j \in 1..(i - 1) : str[j] # Newline
              IN  << SubSeq(str, 1, n - 1) >> \o Lines(SubSeq(str, n + 1, Len(str)))
         ELSE << str >>

\* shput: insert or overwrite.
shput(map, key, value) == [k \in DOMAIN map \cup {key} |-> IF k = key THEN value ELSE map[k]]

\* The data rows of parseLog, from row `i` on: the loop stops at the first
\* row that is not three quoted strings.
RECURSIVE parseRows(_, _, _)
parseRows(lines, i, log) ==
    IF i > Len(lines) THEN [log |-> log, success |-> TRUE]
    ELSE LET row == get3StrInQuotes(lines[i])
         IN  IF row.success
             THEN LET hashResult == prb_parseNumber(row.strings[3])
                  IN  parseRows(lines, i + 1,
                          IF hashResult.kind = "U64"
                          THEN shput(log, row.strings[1],
                                     [compileCmd |-> row.strings[2],
                                      preprocessedHash |-> hashResult.parsedU64])
                          ELSE log)
             ELSE [log |-> log, success |-> FALSE]

\* The rows read whatever the header row says.
parseLog_AnyHeader(str, columnNames) ==
    LET lines == Lines(str)
    IN  IF lines = <<>> THEN [log |-> <<>>, success |-> FALSE]
        ELSE parseRows(lines, 2, <<>>)

parseLog(str, columnNames) ==
    LET lines == Lines(str)
    IN  IF lines = <<>> THEN [log |-> <<>>, success |-> FALSE]
        ELSE LET headers == get3StrInQuotes(lines[1])
             IN  IF headers.success /\ headers.strings = columnNames
                 THEN parseRows(lines, 2, <<>>)
                 ELSE [log |-> <<>>, success |-> FALSE]

\* A row written without the quotes around its fields.
addLogRow_Unquoted(strings) ==
    Flatten([colIndex \in 1..3 |->
        strings[colIndex] \o (IF colIndex = 3 THEN << Newline >> ELSE << Comma >>)])

addLogRow(strings) ==
    Flatten([colIndex \in 1..3 |->
        << Quote >> \o strings[colIndex] \o << Quote >>
            \o (IF colIndex = 3 THEN << Newline >> ELSE << Comma >>)])

\* The entries of a log in the order writeLog walks them.
RECURSIVE logKeys(_)
logKeys(keys) ==
    IF keys = {} THEN <<>>
    ELSE LET k == CHOOSE x \in keys : TRUE
         IN  << k >> \o logKeys(keys \ {k})

\* The text writeLog writes to the log file.
writeLog(log, columnNames) ==
    LET keys == logKeys(DOMAIN log)
    IN  addLogRow(columnNames)
          \o Flatten([entryIndex \in 1..Len(keys) |->
                 addLogRow(<< keys[entryIndex],
                              log[keys[entryIndex]].compileCmd,
                              fmtHash(log[keys[entryIndex]].preprocessedHash) >>)])

(* ------------------------------- state -------------------------------- *)

VARIABLES
    \* The machine, shared by all runs.
    fs,              \* file path -> [mtime, data]
    dirs,            \* the directories that exist
    srcTree,         \* source file path -> version of its content
    userFlags,       \* target -> the compileFlags argument of getStaticLibInfo
    now,             \* clock: the number of the current run
    \* One run of main().
    cmdArgs,         \* prb_getCmdArgs
    mainpc,          \* the position of main()
    project,         \* ProjectInfo without the two logs
    prevCompileLog,  \* project->prevCompileLog
    thisCompileLog,  \* project->thisCompileLog
    threadMode,      \* prb_ThreadMode of prb_execJobs
    notDownloaded,   \* target -> StaticLibInfo.notDownloaded
    compileStatus,   \* target -> StaticLibInfo.compileStatus
    pl,              \* target -> the locals of its compileStaticLib call
    mainExec,        \* the commands main() itself has launched in this run
    removed,         \* the files removed in this run
    faults,          \* the child processes and file operations that failed in this run
    prevRun,         \* how the previous run ended and what changed after it
    \* One function of the program called on its own.
    call,            \* the function, its arguments, how far the call is, its result
    \* The operating system.
    ioMayFail        \* reading, writing and hashing a file can fail

vars == << fs, dirs, srcTree, userFlags, now, cmdArgs, mainpc, project,
           prevCompileLog, thisCompileLog, threadMode, notDownloaded,
           compileStatus, pl, mainExec, removed, faults, prevRun, call, ioMayFail >>

\* What no step of a run changes.
envVars == << srcTree, userFlags, now, cmdArgs, prevRun, call, ioMayFail >>

(* ----------------------------- filesystem ----------------------------- *)

prb_isFile(path) == path \in DOMAIN fs

prb_isDirectory(path) == path \in dirs

\* The filesystem after writing a file.
WriteFile(files, path, data) ==
    [p \in DOMAIN files \cup {path} |->
        IF p = path THEN [mtime |-> now, data |-> data] ELSE files[p]]

\* The filesystem after prb_removeFileIfExists of each of `paths`.
RemoveFiles(files, paths) == [p \in DOMAIN files \ paths |-> files[p]]

\* The log files of a filesystem: log.csv of any output directory.
LogFiles(files) == {p \in DOMAIN files : prb_getLastEntryInPath(p) = <<"log", "csv">>}

\* prb_PathFindMode_AllEntriesInDir
AllEntriesInDir(dir) == {p \in DOMAIN fs : Len(p) = Len(dir) + 2 /\ prb_getParentDir(p) = dir}

\* A set of paths as a sequence, in the order the directory lists them.
RECURSIVE PathsInOrder(_)
PathsInOrder(paths) ==
    IF paths = {} THEN <<>>
    ELSE LET p == CHOOSE x \in paths : TRUE
         IN  << p >> \o PathsInOrder(paths \ {p})

\* prb_PathFindMode_Glob of one pattern relative to `dir`.
GlobMatches(dir, pattern) ==
    PathsInOrder({p \in DOMAIN srcTree :
        /\ prb_getParentDir(p) = prb_pathJoin(dir, << pattern[1] >>)
        /\ pattern[2] \in {"*", p[Len(p) - 1]}
        /\ pattern[3] = Last(p)})

(* -------------------------- getStaticLibInfo -------------------------- *)

downloadDir(name) == prb_pathJoin(rootDir, << name >>)

objDir(name) == prb_pathJoin(project.compileOutDir, << name >>)

includeDir(name) == prb_pathJoin(downloadDir(name), LibIncludeRel(name))

includeFlag(name) == << <<"-I">> \o includeDir(name) >>

compileFlags(name) == userFlags[name] \o includeFlag(name)

libFile(name) == prb_pathJoin(project.compileOutDir, << name, "a" >>)

\* result.notDownloaded; a cloned directory is never empty.
getStaticLibInfo_notDownloaded(name) == ~prb_isDirectory(downloadDir(name))

buildLogPath == prb_pathJoin(project.compileOutDir, <<"log", "csv">>)

(* --------------------------- source patches --------------------------- *)

\* lib/common.h of target A, which main() patches with textfileReplace.
commonH == prb_pathJoin(downloadDir("A"), <<"lib", "common", "h">>)

\* The text main() looks for in lib/common.h, and what it puts in its place.
patchPattern == << <<"#ifndef fribidi_malloc">> >>

patchReplacement == << <<"void* fribidiCustomMalloc(size_t);">>, <<"#ifndef fribidi_malloc">> >>

\* The table compileAndRunBidiGenTab generates into A's include directory.
bracketsTab == prb_pathJoin(includeDir("A"), <<"brackets.tab", "i">>)

genTabSrc == prb_pathJoin(downloadDir("A"), <<"gen.tab", "gen-brackets-tab", "c">>)

\* prb_strReplace, exact mode, from the start: the first occurrence of
\* `pattern` becomes `replacement`; no occurrence, no change.
prb_strReplace(str, pattern, replacement) ==
    LET At(i) == i + Len(pattern) - 1 <= Len(str)
                   /\ SubSeq(str, i, i + Len(pattern) - 1) = pattern
    IN  IF \E i \in 1..Len(str) : At(i)
        THEN LET m == CHOOSE i \in 1..Len(str) : At(i) /\ \A j \in 1..(i - 1) : ~At(j)
             IN  SubSeq(str, 1, m - 1) \o replacement
                   \o SubSeq(str, m + Len(pattern), Len(str))
        ELSE str

\* The new content textfileReplace writes.
textfileReplace(content, pattern, replacement) ==
    prb_strReplace(content, pattern, replacement)

\* The hash of the preprocessed form of a source file: its own content
\* and, for the sources of A, the content of lib/common.h they include.
PreprocessedHash(files, src) ==
    IF src[2] = "A" /\ commonH \in DOMAIN files
    THEN srcTree[src] + MaxHash * (Len(files[commonH].data) - 1)
    ELSE srcTree[src]

(* -------------------------------- Init -------------------------------- *)

ProcessStatuses == {"NotLaunched", "Launched", "CompletedSuccess", "CompletedFailed"}

\* The locals of compileStaticLib before the call.
plInit ==
    [pc |-> "NotStarted",
     inputPaths |-> <<>>,
     existingObjs |-> <<>>,
     outputPreprocess |-> <<>>,
     processesPreprocess |-> <<>>,
     preprocessStatus |-> "None",
     i |-> 1,
     outputObjs |-> <<>>,
     processesCompile |-> <<>>,
     objWasFile |-> <<>>,
     table |-> <<>>,
     thisObjInfo |-> [compileCmd |-> <<>>, preprocessedHash |-> 0],
     libCmd |-> <<>>,
     compileStatus |-> "None",
     libHandle |-> "NotLaunched",
     libStatus |-> "None"]

\* The state of a run before main() starts.
RunInit ==
    /\ mainpc = "start"
    /\ project = [compileOutDir |-> <<>>, compiler |-> "Gcc", release |-> FALSE]
    /\ prevCompileLog = <<>>
    /\ thisCompileLog = <<>>
    /\ threadMode = "Multi"
    /\ notDownloaded = [t \in LibNames |-> FALSE]
    /\ compileStatus = [t \in LibNames |-> "NotLaunched"]
    /\ pl = [t \in LibNames |-> plInit]
    /\ mainExec = {}
    /\ removed = {}
    /\ faults = 0

\* No function is called on its own while the program runs.
NoCall == [fn |-> "none"]

\* A machine on which the build has never run.
NeverRun ==
    /\ call = NoCall
    /\ fs = <<>>
    /\ dirs = {rootDir}
    /\ srcTree = <<>>
    /\ userFlags = [t \in LibNames |-> << <<"-DV1">> >>]
    /\ now = 1
    /\ cmdArgs \in ArgChoices \ { <<"build", "clang", "release">> }
    /\ prevRun = [ok |-> FALSE, change |-> "first", what |-> <<>>]
    /\ RunInit

\* The file operations of the program never fail.
Init ==
    /\ NeverRun
    /\ ioMayFail = FALSE

(* ------------------------------- main() ------------------------------- *)

\* A failed prb_assert: the process aborts.
Abort ==
    /\ mainpc' = "aborted"
    /\ UNCHANGED << fs, dirs, project, prevCompileLog, thisCompileLog, threadMode,
                    notDownloaded, compileStatus, pl, mainExec, removed, faults >>

\* The arguments with the build type not looked at: what is not "release" is
\* a debug build.
MainArgs_AnyBuildType ==
    /\ mainpc = "start"
    /\ UNCHANGED envVars
    /\ IF Len(cmdArgs) # 3
       THEN Abort
       ELSE /\ project' = [project EXCEPT
                  !.release = (cmdArgs[3] = "release"),
                  !.compileOutDir = prb_pathJoin(rootDir, <<"build", cmdArgs[2], cmdArgs[3]>>)]
            /\ dirs' = dirs \cup {project'.compileOutDir}
            /\ mainpc' = "readLog"
            /\ UNCHANGED << fs, prevCompileLog, thisCompileLog, threadMode, notDownloaded,
                            compileStatus, pl, mainExec, removed, faults >>

\* The command-line arguments and the output directory, whose name
\* "build-<compiler>-<type>" is kept as its three parts.
MainArgs ==
    /\ mainpc = "start"
    /\ UNCHANGED envVars
    /\ IF Len(cmdArgs) # 3 \/ cmdArgs[3] \notin {"debug", "release"}
       THEN Abort
       ELSE /\ project' = [project EXCEPT
                  !.release = (cmdArgs[3] = "release"),
                  !.compileOutDir = prb_pathJoin(rootDir, <<"build", cmdArgs[2], cmdArgs[3]>>)]
            /\ dirs' = dirs \cup {project'.compileOutDir}
            /\ mainpc' = "readLog"
            /\ UNCHANGED << fs, prevCompileLog, thisCompileLog, threadMode, notDownloaded,
                            compileStatus, pl, mainExec, removed, faults >>

\* A file operation on an existing file fails.
FileFault == ioMayFail /\ faults < MaxFaults

\* A failed prb_assert on the result of a file operation that has failed.
AbortOnFault ==
    /\ mainpc' = "aborted"
    /\ faults' = faults + 1
    /\ UNCHANGED << fs, dirs, project, prevCompileLog, thisCompileLog, threadMode,
                    notDownloaded, compileStatus, pl, mainExec, removed >>

\* The log file of the previous compilation: it is read when it is there
\* and the read does not fail, and taken when it parses.
MainReadLog ==
    /\ mainpc = "readLog"
    /\ UNCHANGED envVars
    /\ \E readFails \in BOOLEAN :
          /\ readFails => prb_isFile(buildLogPath) /\ FileFault
          /\ LET prevLogRead == [success |-> prb_isFile(buildLogPath) /\ ~readFails]
             IN  prevCompileLog' =
                    IF prevLogRead.success
                    THEN LET prevLogParsed == parseLog(fs[buildLogPath].data, logColumnNames)
                         IN  IF prevLogParsed.success THEN prevLogParsed.log ELSE prevCompileLog
                    ELSE prevCompileLog
          /\ faults' = IF readFails THEN faults + 1 ELSE faults
    /\ mainpc' = "checkCompiler"
    /\ UNCHANGED << fs, dirs, project, thisCompileLog, threadMode, notDownloaded,
                    compileStatus, pl, mainExec, removed >>

\* The compiler named on the command line.
\* Any compiler name taken: what is not gcc is clang.
MainCompiler_AnyCompiler ==
    /\ mainpc = "checkCompiler"
    /\ UNCHANGED envVars
    /\ project' = [project EXCEPT
          !.compiler = IF cmdArgs[2] = "gcc" THEN "Gcc" ELSE "Clang"]
    /\ mainpc' = "setup"
    /\ UNCHANGED << fs, dirs, prevCompileLog, thisCompileLog, threadMode,
                    notDownloaded, compileStatus, pl, mainExec, removed, faults >>

MainCompiler ==
    /\ mainpc = "checkCompiler"
    /\ UNCHANGED envVars
    /\ IF cmdArgs[2] \notin {"gcc", "clang"}
       THEN Abort
       ELSE /\ project' = [project EXCEPT
                  !.compiler = IF cmdArgs[2] = "gcc" THEN "Gcc" ELSE "Clang"]
            /\ mainpc' = "setup"
            /\ UNCHANGED << fs, dirs, prevCompileLog, thisCompileLog, threadMode,
                            notDownloaded, compileStatus, pl, mainExec, removed, faults >>

\* SECTION Setup: the getStaticLibInfo calls.
MainSetup ==
    /\ mainpc = "setup"
    /\ UNCHANGED envVars
    /\ notDownloaded' = [t \in LibNames |-> getStaticLibInfo_notDownloaded(t)]
    /\ mainpc' = "download"
    /\ UNCHANGED << fs, dirs, project, prevCompileLog, thisCompileLog, threadMode,
                    compileStatus, pl, mainExec, removed, faults >>

\* SECTION Download: gitClone and gitReset of the libraries not downloaded.
MainDownload ==
    /\ mainpc = "download"
    /\ UNCHANGED << userFlags, now, cmdArgs, prevRun, call, ioMayFail >>
    /\ LET cloned == {t \in LibNames : notDownloaded[t]}
           files == {p \in SourceUniverse : p[2] \in cloned}
       IN  /\ dirs' = dirs \cup {downloadDir(t) : t \in cloned}
           /\ srcTree' = [p \in DOMAIN srcTree \cup files |->
                            IF p \in files THEN 1 ELSE srcTree[p]]
           /\ fs' = IF "A" \in cloned THEN WriteFile(fs, commonH, patchPattern) ELSE fs
           /\ mainExec' = IF cloned = {} THEN mainExec
                          ELSE mainExec \cup {"gitClone", "gitReset"}
    /\ mainpc' = "genTab"
    /\ UNCHANGED << project, prevCompileLog, thisCompileLog, threadMode, notDownloaded,
                    compileStatus, pl, removed, faults >>

\* The command compileAndRunBidiGenTab builds its generator with: two
\* sources, an executable as output, no link flags.
fribidiNoConfigFlag ==
    << <<"-DDONT_HAVE_FRIBIDI_CONFIG_H">>, <<"-DDONT_HAVE_FRIBIDI_UNICODE_VERSION_H">> >>

genTabFlags ==
    fribidiNoConfigFlag \o includeFlag("A")
      \o << <<"-DHAVE_STDLIB_H=1">>, <<"-DHAVE_STRING_H">>, <<"-DHAVE_STRINGIZE">> >>

exeFilename == prb_replaceExt(genTabSrc, "bin")

packtabPath == prb_pathJoin(prb_getParentDir(genTabSrc), <<"packtab", "c">>)

genTabCmd ==
    constructCompileCmd(project, genTabFlags, << packtabPath, genTabSrc >>, exeFilename, <<>>)

\* compileAndRunBidiGenTab: the generator is built and run when its table
\* is not there.
compileAndRunBidiGenTab ==
    /\ mainpc = "genTab"
    /\ UNCHANGED envVars
    /\ IF prb_isFile(bracketsTab)
       THEN UNCHANGED << fs, mainExec >>
       ELSE /\ fs' = WriteFile(fs, bracketsTab, <<>>)
            /\ mainExec' = mainExec \cup {"genTabCompile", "genTabRun"}
    /\ mainpc' = "patch"
    /\ UNCHANGED << dirs, project, prevCompileLog, thisCompileLog, threadMode,
                    notDownloaded, compileStatus, pl, removed, faults >>

\* The forward declarations main() writes into lib/common.h of a library
\* it has just downloaded.
MainPatch ==
    /\ mainpc = "patch"
    /\ UNCHANGED envVars
    /\ IF notDownloaded["A"] /\ ~prb_isFile(commonH)
       THEN Abort
       ELSE /\ fs' = IF notDownloaded["A"]
                     THEN WriteFile(fs, commonH,
                              textfileReplace(fs[commonH].data, patchPattern, patchReplacement))
                     ELSE fs
            /\ mainpc' = "createJobs"
            /\ UNCHANGED << dirs, project, prevCompileLog, thisCompileLog, threadMode,
                            notDownloaded, compileStatus, pl, mainExec, removed, faults >>

\* SECTION Compile with the jobs created and never handed to prb_execJobs.
MainCreateJobs_NoExec ==
    /\ mainpc = "createJobs"
    /\ UNCHANGED envVars
    /\ mainpc' = "checkStatus"
    /\ UNCHANGED << fs, dirs, project, prevCompileLog, thisCompileLog, threadMode,
                    notDownloaded, compileStatus, pl, mainExec, removed, faults >>

\* SECTION Compile: one job per library; single-threaded under a debugger.
MainCreateJobs ==
    /\ mainpc = "createJobs"
    /\ UNCHANGED envVars
    /\ \E debuggerPresent \in BOOLEAN :
          threadMode' = IF debuggerPresent THEN "Single" ELSE "Multi"
    /\ mainpc' = "execJobs"
    /\ UNCHANGED << fs, dirs, project, prevCompileLog, thisCompileLog, notDownloaded,
                    compileStatus, pl, mainExec, removed, faults >>

(* -------------------------- prb_execJobs ------------------------------ *)

LibIndex(name) == CHOOSE k \in 1..Len(Libs) : Libs[k] = name

\* A worker may run a step of the job of `name`: any job in parallel mode,
\* the first unfinished job in serial mode.
JobRuns(name) ==
    /\ mainpc = "execJobs"
    /\ \/ threadMode = "Multi"
       \/ \A k \in 1..(LibIndex(name) - 1) : pl[Libs[k]].pc = "Done"

(* ------------------------- compileStaticLib --------------------------- *)

MaxOf(S) == CHOOSE x \in S : \A y \in S : y <= x

\* The cache-hit test without its reset of shouldRecompile: every input is
\* compiled again.
shouldRecompile_Always(prevLog, outputObjFilepath, preprocessedHash, compileCmd, objIsFile) ==
    TRUE

\* The cache-hit test without its comparison of the two commands.
shouldRecompile_IgnoresCmd(prevLog, outputObjFilepath, preprocessedHash, compileCmd, objIsFile) ==
    ~ ( /\ prevLog # <<>>
        /\ objIsFile
        /\ Str(outputObjFilepath) \in DOMAIN prevLog
        /\ preprocessedHash = prevLog[Str(outputObjFilepath)].preprocessedHash )

\* The cache-hit test without its look at the object file.
shouldRecompile_IgnoresObj(prevLog, outputObjFilepath, preprocessedHash, compileCmd, objIsFile) ==
    ~ ( /\ prevLog # <<>>
        /\ Str(outputObjFilepath) \in DOMAIN prevLog
        /\ preprocessedHash = prevLog[Str(outputObjFilepath)].preprocessedHash
        /\ compileCmd = prevLog[Str(outputObjFilepath)].compileCmd )

\* The cache-hit test: TRUE when the object has to be compiled again.
shouldRecompile(prevLog, outputObjFilepath, preprocessedHash, compileCmd, objIsFile) ==
    ~ ( /\ prevLog # <<>>
        /\ objIsFile
        /\ Str(outputObjFilepath) \in DOMAIN prevLog
        /\ preprocessedHash = prevLog[Str(outputObjFilepath)].preprocessedHash
        /\ compileCmd = prevLog[Str(outputObjFilepath)].compileCmd )

\* Path of the preprocessed output / of the object of an input.
outputPreprocessFilepath(name, inputFilepath) ==
    prb_pathJoin(objDir(name),
        prb_replaceExt(prb_getLastEntryInPath(inputFilepath),
                       IF LibCpp(name) THEN "ii" ELSE "i"))

outputObjFilepath(name, inputFilepath) ==
    prb_pathJoin(objDir(name), prb_replaceExt(prb_getLastEntryInPath(inputFilepath), "obj"))

\* A pipeline step that touches only the locals of the call.
PlStep(name, locals) ==
    /\ pl' = [pl EXCEPT ![name] = locals]
    /\ UNCHANGED mainpc

\* Entry without the assignment of Launched.
Start_StaysNotLaunched(name) ==
    /\ JobRuns(name)
    /\ pl[name].pc = "NotStarted"
    /\ UNCHANGED envVars
    /\ dirs' = dirs \cup {objDir(name)}
    /\ PlStep(name, [pl[name] EXCEPT !.pc = "Glob"])
    /\ UNCHANGED << fs, project, prevCompileLog, thisCompileLog, threadMode,
                    notDownloaded, compileStatus, mainExec, removed, faults >>

\* Entry: the status assertion, Launched, and the object directory.
Start(name) ==
    /\ JobRuns(name)
    /\ pl[name].pc = "NotStarted"
    /\ UNCHANGED envVars
    /\ IF compileStatus[name] # "NotLaunched"
       THEN Abort
       ELSE /\ compileStatus' = [compileStatus EXCEPT ![name] = "Launched"]
            /\ dirs' = dirs \cup {objDir(name)}
            /\ PlStep(name, [pl[name] EXCEPT !.pc = "Glob"])
            /\ UNCHANGED << fs, project, prevCompileLog, thisCompileLog, threadMode,
                            notDownloaded, mainExec, removed, faults >>

\* The expansion of the source patterns with no input at all taken as
\* nothing to build: the pipeline goes to its end.
Glob_EmptyIsNothingToDo(name) ==
    /\ JobRuns(name)
    /\ pl[name].pc = "Glob"
    /\ UNCHANGED envVars
    /\ LET sources == LibSources(name)
           inputPaths == Flatten([srcIndex \in 1..Len(sources) |->
                             GlobMatches(downloadDir(name), sources[srcIndex])])
       IN  PlStep(name, [pl[name] EXCEPT
               !.pc = IF Len(inputPaths) = 0 THEN "End" ELSE "ScanObjDir",
               !.inputPaths = inputPaths])
    /\ UNCHANGED << fs, dirs, project, prevCompileLog, thisCompileLog,
                    threadMode, notDownloaded, compileStatus, mainExec,
                    removed, faults >>

\* The source patterns are expanded; no input at all is fatal.
Glob(name) ==
    /\ JobRuns(name)
    /\ pl[name].pc = "Glob"
    /\ UNCHANGED envVars
    /\ LET sources == LibSources(name)
           inputPaths == Flatten([srcIndex \in 1..Len(sources) |->
                             GlobMatches(downloadDir(name), sources[srcIndex])])
       IN  IF Len(inputPaths) = 0
           THEN Abort
           ELSE /\ PlStep(name, [pl[name] EXCEPT !.pc = "ScanObjDir", !.inputPaths = inputPaths])
                /\ UNCHANGED << fs, dirs, project, prevCompileLog, thisCompileLog,
                                threadMode, notDownloaded, compileStatus, mainExec,
                                removed, faults >>

\* The listing made of the output directory of the whole build in place of
\* the object directory of the target.
ScanObjDir_OutDir(name) ==
    /\ JobRuns(name)
    /\ pl[name].pc = "ScanObjDir"
    /\ UNCHANGED envVars
    /\ LET entries == AllEntriesInDir(project.compileOutDir)
           objs == {p \in entries : strEndsWithDotExt(p, "obj")}
       IN  /\ fs' = RemoveFiles(fs, entries \ objs)
           /\ removed' = removed \cup (entries \ objs)
           /\ PlStep(name, [pl[name] EXCEPT
                 !.pc = "Preprocess", !.i = 1,
                 !.existingObjs = [p \in objs |-> FALSE]])
    /\ UNCHANGED << dirs, project, prevCompileLog, thisCompileLog, threadMode,
                    notDownloaded, compileStatus, mainExec, faults >>

\* The object directory is listed: objects are remembered as not yet
\* claimed, every other entry is removed.
ScanObjDir(name) ==
    /\ JobRuns(name)
    /\ pl[name].pc = "ScanObjDir"
    /\ UNCHANGED envVars
    /\ LET entries == AllEntriesInDir(objDir(name))
           objs == {p \in entries : strEndsWithDotExt(p, "obj")}
       IN  /\ fs' = RemoveFiles(fs, entries \ objs)
           /\ removed' = removed \cup (entries \ objs)
           /\ PlStep(name, [pl[name] EXCEPT
                 !.pc = "Preprocess", !.i = 1,
                 !.existingObjs = [p \in objs |-> FALSE]])
    /\ UNCHANGED << dirs, project, prevCompileLog, thisCompileLog, threadMode,
                    notDownloaded, compileStatus, mainExec, faults >>

\* The launch loop left as soon as a process launched before has failed.
LaunchPreprocess_StopsOnFailure(name) ==
    /\ JobRuns(name)
    /\ pl[name].pc = "Preprocess"
    /\ UNCHANGED envVars
    /\ LET L == pl[name]
           inputFilepath == L.inputPaths[L.i]
           output == outputPreprocessFilepath(name, inputFilepath)
           preprocessCmd == constructCompileCmd(project, compileFlags(name),
                                << inputFilepath >>, output, <<>>)
           failed == \E k \in 1..Len(L.processesPreprocess) :
                        L.processesPreprocess[k].status = "CompletedFailed"
       IN  PlStep(name,
               IF failed
               THEN [L EXCEPT !.pc = "WaitPreprocess"]
               ELSE [L EXCEPT
                      !.outputPreprocess = Append(@, output),
                      !.processesPreprocess =
                          Append(@, [cmd |-> preprocessCmd, status |-> "Launched", input |-> L.i]),
                      !.i = @ + 1,
                      !.pc = IF L.i = Len(L.inputPaths) THEN "WaitPreprocess" ELSE "Preprocess"])
    /\ UNCHANGED << fs, dirs, project, prevCompileLog, thisCompileLog,
                    threadMode, notDownloaded, compileStatus, mainExec,
                    removed, faults >>

\* One preprocess command is launched without waiting.
LaunchPreprocess(name) ==
    /\ JobRuns(name)
    /\ pl[name].pc = "Preprocess"
    /\ UNCHANGED envVars
    /\ LET L == pl[name]
           inputFilepath == L.inputPaths[L.i]
           output == outputPreprocessFilepath(name, inputFilepath)
           preprocessCmd == constructCompileCmd(project, compileFlags(name),
                                << inputFilepath >>, output, <<>>)
       IN  IF constructCompileCmdAsserts(<< inputFilepath >>, output)
           THEN Abort
           ELSE /\ PlStep(name, [L EXCEPT
                      !.outputPreprocess = Append(@, output),
                      !.processesPreprocess =
                          Append(@, [cmd |-> preprocessCmd, status |-> "Launched", input |-> L.i]),
                      !.i = @ + 1,
                      !.pc = IF L.i = Len(L.inputPaths) THEN "WaitPreprocess" ELSE "Preprocess"])
                /\ UNCHANGED << fs, dirs, project, prevCompileLog, thisCompileLog,
                                threadMode, notDownloaded, compileStatus, mainExec,
                                removed, faults >>

\* A preprocess process exits; on success it has written its output.
ExitPreprocess(name, k, ok) ==
    /\ mainpc = "execJobs"
    /\ k \in 1..Len(pl[name].processesPreprocess)
    /\ pl[name].processesPreprocess[k].status = "Launched"
    /\ ok \/ faults < MaxFaults
    /\ UNCHANGED envVars
    /\ fs' = IF ok
             THEN WriteFile(fs, pl[name].outputPreprocess[k],
                            PreprocessedHash(fs, pl[name].inputPaths[k]))
             ELSE fs
    /\ faults' = IF ok THEN faults ELSE faults + 1
    /\ PlStep(name, [pl[name] EXCEPT !.processesPreprocess[k].status =
                        IF ok THEN "CompletedSuccess" ELSE "CompletedFailed"])
    /\ UNCHANGED << dirs, project, prevCompileLog, thisCompileLog, threadMode,
                    notDownloaded, compileStatus, mainExec, removed >>

\* prb_waitForProcesses: Success when every process completed with success.
prb_waitForProcesses(handles) ==
    IF \A k \in 1..Len(handles) : handles[k].status = "CompletedSuccess"
    THEN "Success" ELSE "Failure"

\* A wait that returns only when every process has exited with success.
AllExited_OnlySuccess(handles) ==
    \A k \in 1..Len(handles) : handles[k].status = "CompletedSuccess"

AllExited(handles) ==
    \A k \in 1..Len(handles) : handles[k].status \in {"CompletedSuccess", "CompletedFailed"}

\* No wait at all: the compile loop starts while preprocess processes run.
WaitPreprocess_NoWait(name) ==
    /\ JobRuns(name)
    /\ pl[name].pc = "WaitPreprocess"
    /\ UNCHANGED envVars
    /\ PlStep(name, [pl[name] EXCEPT
          !.preprocessStatus = "Success",
          !.i = 1,
          !.pc = "Decide"])
    /\ UNCHANGED << fs, dirs, project, prevCompileLog, thisCompileLog, threadMode,
                    notDownloaded, compileStatus, mainExec, removed, faults >>

\* The wait for the whole batch, its status not looked at.
WaitPreprocess_IgnoresStatus(name) ==
    /\ JobRuns(name)
    /\ pl[name].pc = "WaitPreprocess"
    /\ AllExited(pl[name].processesPreprocess)
    /\ UNCHANGED envVars
    /\ PlStep(name, [pl[name] EXCEPT
          !.preprocessStatus = prb_waitForProcesses(pl[name].processesPreprocess),
          !.i = 1,
          !.pc = "Decide"])
    /\ UNCHANGED << fs, dirs, project, prevCompileLog, thisCompileLog, threadMode,
                    notDownloaded, compileStatus, mainExec, removed, faults >>

\* The wait for the whole preprocess batch.
WaitPreprocess(name) ==
    /\ JobRuns(name)
    /\ pl[name].pc = "WaitPreprocess"
    /\ AllExited(pl[name].processesPreprocess)
    /\ UNCHANGED envVars
    /\ LET preprocessStatus == prb_waitForProcesses(pl[name].processesPreprocess)
       IN  PlStep(name, [pl[name] EXCEPT
               !.preprocessStatus = preprocessStatus,
               !.i = 1,
               !.pc = IF preprocessStatus = "Success" THEN "Decide" ELSE "End"])
    /\ UNCHANGED << fs, dirs, project, prevCompileLog, thisCompileLog, threadMode,
                    notDownloaded, compileStatus, mainExec, removed, faults >>

\* One input of the compile loop: its object is claimed, the cache-hit test
\* is made, the compile is launched on a miss, and shput reads the table of
\* the current log.
Decide(name) ==
    /\ JobRuns(name)
    /\ pl[name].pc = "Decide"
    /\ UNCHANGED envVars
    /\ LET L == pl[name]
           input == L.inputPaths[L.i]
           obj == outputObjFilepath(name, input)
           compileCmd == constructCompileCmd(project, compileFlags(name), << input >>, obj, <<>>)
           preprocessed == L.outputPreprocess[L.i]
       IN  \/ ~prb_isFile(preprocessed) /\ Abort
           \/ prb_isFile(preprocessed) /\ FileFault /\ AbortOnFault
           \/ /\ prb_isFile(preprocessed)
              /\ LET preprocessedHash == fs[preprocessed].data
                     recompile == shouldRecompile(prevCompileLog, obj, preprocessedHash,
                                                  compileCmd, prb_isFile(obj))
                 IN  /\ PlStep(name, [L EXCEPT
                           !.outputObjs = Append(@, obj),
                           !.existingObjs =
                               IF obj \in DOMAIN @ THEN [@ EXCEPT ![obj] = TRUE] ELSE @,
                           !.processesCompile =
                               IF recompile
                               THEN Append(@, [cmd |-> compileCmd, status |-> "Launched",
                                               input |-> L.i])
                               ELSE @,
                           !.objWasFile = Append(@, prb_isFile(obj)),
                           !.thisObjInfo = [compileCmd |-> compileCmd,
                                            preprocessedHash |-> preprocessedHash],
                           !.table = thisCompileLog,
                           !.pc = "LogInsert"])
                     /\ UNCHANGED << fs, dirs, project, prevCompileLog, thisCompileLog,
                                     threadMode, notDownloaded, compileStatus, mainExec,
                                     removed, faults >>

\* shput writes the table it read, with the entry of this object, back to
\* project->thisCompileLog.
LogInsert(name) ==
    /\ JobRuns(name)
    /\ pl[name].pc = "LogInsert"
    /\ UNCHANGED envVars
    /\ LET L == pl[name]
       IN  /\ thisCompileLog' = shput(L.table, Str(Last(L.outputObjs)), L.thisObjInfo)
           /\ PlStep(name, [L EXCEPT
                 !.i = @ + 1,
                 !.pc = IF L.i = Len(L.inputPaths) THEN "Evict" ELSE "Decide"])
    /\ UNCHANGED << fs, dirs, project, prevCompileLog, threadMode, notDownloaded,
                    compileStatus, mainExec, removed, faults >>

\* The step after the compile loop without the removal of the objects
\* that no input claimed.
Evict_KeepsStale(name) ==
    /\ JobRuns(name)
    /\ pl[name].pc = "Evict"
    /\ UNCHANGED envVars
    /\ PlStep(name, [pl[name] EXCEPT !.pc = "WaitCompile"])
    /\ UNCHANGED << fs, dirs, project, prevCompileLog, thisCompileLog, threadMode,
                    notDownloaded, compileStatus, mainExec, removed, faults >>

\* The objects that no input claimed are removed.
Evict(name) ==
    /\ JobRuns(name)
    /\ pl[name].pc = "Evict"
    /\ UNCHANGED envVars
    /\ LET stale == {p \in DOMAIN pl[name].existingObjs : ~pl[name].existingObjs[p]}
       IN  /\ fs' = RemoveFiles(fs, stale)
           /\ removed' = removed \cup (stale \cap DOMAIN fs)
    /\ PlStep(name, [pl[name] EXCEPT !.pc = "WaitCompile"])
    /\ UNCHANGED << dirs, project, prevCompileLog, thisCompileLog, threadMode,
                    notDownloaded, compileStatus, mainExec, faults >>

\* A compile process exits; on success it has written its object.
ExitCompile(name, k, ok) ==
    /\ mainpc = "execJobs"
    /\ k \in 1..Len(pl[name].processesCompile)
    /\ pl[name].processesCompile[k].status = "Launched"
    /\ ok \/ faults < MaxFaults
    /\ UNCHANGED envVars
    /\ LET proc == pl[name].processesCompile[k]
       IN  fs' = IF ok
                 THEN WriteFile(fs, pl[name].outputObjs[proc.input],
                          [compileCmd |-> proc.cmd,
                           preprocessedHash |->
                               PreprocessedHash(fs, pl[name].inputPaths[proc.input])])
                 ELSE fs
    /\ faults' = IF ok THEN faults ELSE faults + 1
    /\ PlStep(name, [pl[name] EXCEPT !.processesCompile[k].status =
                        IF ok THEN "CompletedSuccess" ELSE "CompletedFailed"])
    /\ UNCHANGED << dirs, project, prevCompileLog, thisCompileLog, threadMode,
                    notDownloaded, compileStatus, mainExec, removed >>

\* The wait for the batch of compiles, its status recorded and not acted on.
WaitCompile_IgnoresStatus(name) ==
    /\ JobRuns(name)
    /\ pl[name].pc = "WaitCompile"
    /\ AllExited(pl[name].processesCompile)
    /\ UNCHANGED envVars
    /\ PlStep(name, [pl[name] EXCEPT
          !.compileStatus = prb_waitForProcesses(pl[name].processesCompile),
          !.pc = "Archive"])
    /\ UNCHANGED << fs, dirs, project, prevCompileLog, thisCompileLog, threadMode,
                    notDownloaded, compileStatus, mainExec, removed, faults >>

\* The wait for the whole batch of launched compiles.
WaitCompile(name) ==
    /\ JobRuns(name)
    /\ pl[name].pc = "WaitCompile"
    /\ AllExited(pl[name].processesCompile)
    /\ UNCHANGED envVars
    /\ LET status == prb_waitForProcesses(pl[name].processesCompile)
       IN  PlStep(name, [pl[name] EXCEPT
               !.compileStatus = status,
               !.pc = IF status = "Success" THEN "Archive" ELSE "End"])
    /\ UNCHANGED << fs, dirs, project, prevCompileLog, thisCompileLog, threadMode,
                    notDownloaded, compileStatus, mainExec, removed, faults >>

\* The latest modification time of the objects.
sourceLastMod(files, objs) == MaxOf({files[path].mtime : path \in objs})

\* The archive test with "not older" in place of "newer".
shouldArchive_NotOlder(files, libPath, objs) ==
    \/ libPath \notin DOMAIN files
    \/ sourceLastMod(files, objs) >= files[libPath].mtime

\* The archive test: the archive is absent (outputLastMod is not valid) or
\* an object is newer than it.
shouldArchive(files, libPath, objs) ==
    \/ libPath \notin DOMAIN files
    \/ sourceLastMod(files, objs) > files[libPath].mtime

\* The archive is made again when the test says so: the old one is removed
\* and the archiver is launched.
Archive(name) ==
    /\ JobRuns(name)
    /\ pl[name].pc = "Archive"
    /\ UNCHANGED envVars
    /\ LET L == pl[name]
           objs == SeqToSet(L.outputObjs)
       IN  IF \E path \in objs : ~prb_isFile(path)
           THEN Abort
           ELSE IF shouldArchive(fs, libFile(name), objs)
                    THEN /\ fs' = RemoveFiles(fs, {libFile(name)})
                         /\ removed' = removed \cup ({libFile(name)} \cap DOMAIN fs)
                         /\ PlStep(name, [L EXCEPT
                               !.libCmd = << <<"ar">>, <<"rcs">>, libFile(name) >> \o L.outputObjs,
                               !.libHandle = "Launched",
                               !.pc = "WaitLib"])
                         /\ UNCHANGED << dirs, project, prevCompileLog, thisCompileLog,
                                         threadMode, notDownloaded, compileStatus,
                                         mainExec, faults >>
                    ELSE /\ PlStep(name, [L EXCEPT !.libStatus = "Success", !.pc = "End"])
                         /\ UNCHANGED << fs, dirs, project, prevCompileLog, thisCompileLog,
                                         threadMode, notDownloaded, compileStatus,
                                         mainExec, removed, faults >>

\* The archiver exits and its synchronous prb_execCmd returns; on success
\* it has written the archive of the objects of its command line.
LibDone(name, ok) ==
    /\ JobRuns(name)
    /\ pl[name].pc = "WaitLib"
    /\ ok \/ faults < MaxFaults
    /\ UNCHANGED envVars
    /\ fs' = IF ok
             THEN WriteFile(fs, libFile(name),
                      {pl[name].libCmd[k] : k \in 4..Len(pl[name].libCmd)})
             ELSE fs
    /\ faults' = IF ok THEN faults ELSE faults + 1
    /\ PlStep(name, [pl[name] EXCEPT
          !.libHandle = IF ok THEN "CompletedSuccess" ELSE "CompletedFailed",
          !.libStatus = IF ok THEN "Success" ELSE "Failure",
          !.pc = "End"])
    /\ UNCHANGED << dirs, project, prevCompileLog, thisCompileLog, threadMode,
                    notDownloaded, compileStatus, mainExec, removed >>

\* The final status taken from the archive stage alone, an archive stage
\* that was never reached counting as no failure.
End_UnreachedIsSuccess(name) ==
    /\ JobRuns(name)
    /\ pl[name].pc = "End"
    /\ UNCHANGED envVars
    /\ compileStatus' = [compileStatus EXCEPT ![name] =
          IF pl[name].libStatus # "Failure" THEN "CompletedSuccess" ELSE "CompletedFailed"]
    /\ PlStep(name, [pl[name] EXCEPT !.pc = "Done"])
    /\ UNCHANGED << fs, dirs, project, prevCompileLog, thisCompileLog, threadMode,
                    notDownloaded, mainExec, removed, faults >>

\* The final status of the target.
End(name) ==
    /\ JobRuns(name)
    /\ pl[name].pc = "End"
    /\ UNCHANGED envVars
    /\ compileStatus' = [compileStatus EXCEPT ![name] =
          IF pl[name].libStatus = "Success" THEN "CompletedSuccess" ELSE "CompletedFailed"]
    /\ PlStep(name, [pl[name] EXCEPT !.pc = "Done"])
    /\ UNCHANGED << fs, dirs, project, prevCompileLog, thisCompileLog, threadMode,
                    notDownloaded, mainExec, removed, faults >>

compileStaticLib(name) ==
    \/ Start(name)
    \/ Glob(name)
    \/ ScanObjDir(name)
    \/ LaunchPreprocess(name)
    \/ WaitPreprocess(name)
    \/ Decide(name)
    \/ LogInsert(name)
    \/ Evict(name)
    \/ WaitCompile(name)
    \/ Archive(name)
    \/ \E ok \in BOOLEAN : LibDone(name, ok)
    \/ End(name)

\* The child processes of the pipelines.
ChildProcess(name) ==
    \/ \E k \in 1..Cardinality(SourceUniverse), ok \in BOOLEAN : ExitPreprocess(name, k, ok)
    \/ \E k \in 1..Cardinality(SourceUniverse), ok \in BOOLEAN : ExitCompile(name, k, ok)

(* ------------------------ main(), after the jobs ---------------------- *)

\* prb_execJobs returns when every job has run to its end.
MainJobsReturn ==
    /\ mainpc = "execJobs"
    /\ \A t \in LibNames : pl[t].pc = "Done"
    /\ mainpc' = "checkStatus"
    /\ UNCHANGED envVars
    /\ UNCHANGED << fs, dirs, project, prevCompileLog, thisCompileLog, threadMode,
                    notDownloaded, compileStatus, pl, mainExec, removed, faults >>

\* The assertion on the status of the first library only.
MainCheckStatus_FirstOnly ==
    /\ mainpc = "checkStatus"
    /\ UNCHANGED envVars
    /\ IF compileStatus[Libs[1]] # "CompletedSuccess"
       THEN Abort
       ELSE /\ mainpc' = "mainPreprocess"
            /\ UNCHANGED << fs, dirs, project, prevCompileLog, thisCompileLog, threadMode,
                            notDownloaded, compileStatus, pl, mainExec, removed, faults >>

\* The assertions on the status of every library.
MainCheckStatus ==
    /\ mainpc = "checkStatus"
    /\ UNCHANGED envVars
    /\ IF \E t \in LibNames : compileStatus[t] # "CompletedSuccess"
       THEN Abort
       ELSE /\ mainpc' = "mainPreprocess"
            /\ UNCHANGED << fs, dirs, project, prevCompileLog, thisCompileLog, threadMode,
                            notDownloaded, compileStatus, pl, mainExec, removed, faults >>

\* A command main() launches itself; `to` is where main() goes on.
MainLaunch(at, what, to) ==
    /\ mainpc = at
    /\ UNCHANGED envVars
    /\ mainExec' = mainExec \cup {what}
    /\ mainpc' = to
    /\ UNCHANGED << fs, dirs, project, prevCompileLog, thisCompileLog, threadMode,
                    notDownloaded, compileStatus, pl, removed, faults >>

\* A command main() has launched ends; a failure trips the assertion on
\* its status.
MainAwait(at, ok, to) ==
    /\ mainpc = at
    /\ ok \/ faults < MaxFaults
    /\ UNCHANGED envVars
    /\ mainpc' = IF ok THEN to ELSE "aborted"
    /\ faults' = IF ok THEN faults ELSE faults + 1
    /\ UNCHANGED << fs, dirs, project, prevCompileLog, thisCompileLog, threadMode,
                    notDownloaded, compileStatus, pl, mainExec, removed >>

\* The commands of the main program that are made without link flags.
mainFlags == Flatten([k \in 1..Len(Libs) |-> includeFlag(Libs[k])])
                \o fribidiNoConfigFlag \o << <<"-Wall">>, <<"-Wextra">>, <<"-Werror">> >>

mainNotPreprocessedPath == prb_pathJoin(rootDir, <<"example", "c">>)

mainPreprocessedPath == prb_pathJoin(project.compileOutDir, <<"example", "i">>)

mainObjPath == prb_replaceExt(mainPreprocessedPath, "obj")

mainCmdPreprocess ==
    constructCompileCmd(project, mainFlags, << mainNotPreprocessedPath >>,
                        mainPreprocessedPath, <<>>)

mainCmdObj ==
    constructCompileCmd(project, mainFlags, << mainNotPreprocessedPath >>, mainObjPath, <<>>)

\* SECTION Main program: preprocess (not waited for), compile, link.
MainProgram ==
    \/ MainLaunch("mainPreprocess", "mainPreprocess", "mainCompile")
    \/ MainLaunch("mainCompile", "mainCompile", "mainCompileWait")
    \/ \E ok \in BOOLEAN : MainAwait("mainCompileWait", ok, "mainLink")
    \/ MainLaunch("mainLink", "mainLink", "mainLinkWait")
    \/ \E ok \in BOOLEAN : MainAwait("mainLinkWait", ok, "mainPreprocessWait")
    \/ \E ok \in BOOLEAN : MainAwait("mainPreprocessWait", ok, "writeLog")

\* The write of the log file with the assertion on its result left out.
MainWriteLog_IgnoresFailure ==
    /\ mainpc = "writeLog"
    /\ UNCHANGED envVars
    /\ \/ /\ fs' = WriteFile(fs, buildLogPath, writeLog(thisCompileLog, logColumnNames))
          /\ UNCHANGED faults
       \/ /\ FileFault
          /\ faults' = faults + 1
          /\ UNCHANGED fs
    /\ mainpc' = "done"
    /\ UNCHANGED << dirs, project, prevCompileLog, thisCompileLog, threadMode,
                    notDownloaded, compileStatus, pl, mainExec, removed >>

\* The log of this compilation replaces the log file; a write that fails
\* leaves the file as it was or cut short, and trips the assertion.
MainWriteLog ==
    /\ mainpc = "writeLog"
    /\ UNCHANGED envVars
    /\ \/ /\ fs' = WriteFile(fs, buildLogPath, writeLog(thisCompileLog, logColumnNames))
          /\ mainpc' = "done"
          /\ UNCHANGED faults
       \/ /\ FileFault
          /\ fs' \in {fs, WriteFile(fs, buildLogPath, <<>>)}
          /\ mainpc' = "aborted"
          /\ faults' = faults + 1
    /\ UNCHANGED << dirs, project, prevCompileLog, thisCompileLog, threadMode,
                    notDownloaded, compileStatus, pl, mainExec, removed >>

main ==
    \/ MainArgs
    \/ MainReadLog
    \/ MainCompiler
    \/ MainSetup
    \/ MainDownload
    \/ compileAndRunBidiGenTab
    \/ MainPatch
    \/ MainCreateJobs
    \/ MainJobsReturn
    \/ MainCheckStatus
    \/ MainProgram
    \/ MainWriteLog

(* --------------------------- between runs ----------------------------- *)

\* The column names of a log file written by something else than this
\* program: the three names in another order.
foreignColumnNames == << logColumnNames[2], logColumnNames[1], logColumnNames[3] >>

\* A log text with its first line replaced by the row of `columnNames`.
ReplaceHeader(str, columnNames) ==
    LET lines == Lines(str)
    IN  addLogRow(columnNames)
          \o Flatten([k \in 1..(Len(lines) - 1) |-> lines[k + 1] \o << Newline >>])

\* What can change on the machine between two runs: nothing, one source
\* file (edited, removed, added), the flags of one library, the arguments,
\* one object file deleted by hand, the header row of a log file.
EnvChange(change, what) ==
    /\ prevRun' = [ok |-> mainpc = "done", change |-> change, what |-> what]
    /\ fs' = CASE change = "clean" -> RemoveFiles(fs, {what})
              [] change = "header" ->
                   [fs EXCEPT ![what].data = ReplaceHeader(@, foreignColumnNames)]
              [] OTHER -> fs
    /\ srcTree' =
          CASE change = "edit" ->
                 [srcTree EXCEPT ![SubSeq(what, 2, Len(what))] = what[1]]
            [] change = "remove" -> [p \in DOMAIN srcTree \ {what} |-> srcTree[p]]
            [] change = "add" -> [p \in DOMAIN srcTree \cup {what} |->
                                     IF p = what THEN 1 ELSE srcTree[p]]
            [] OTHER -> srcTree
    /\ userFlags' = IF change = "flags" THEN [userFlags EXCEPT ![what[1]] = what[2]]
                    ELSE userFlags
    /\ cmdArgs' = IF change = "args" THEN what ELSE cmdArgs

\* The next run of the program starts.
NextRun ==
    /\ mainpc \in {"done", "aborted"}
    /\ now < MaxRuns
    /\ now' = now + 1
    /\ \/ EnvChange("none", <<>>)
       \/ \E p \in DOMAIN srcTree \cap Editable, v \in 1..MaxHash :
             v # srcTree[p] /\ EnvChange("edit", << v >> \o p)
       \/ \E p \in DOMAIN srcTree \cap Removable : EnvChange("remove", p)
       \/ \E p \in SourceUniverse \ DOMAIN srcTree :
             prb_isDirectory(downloadDir(p[2])) /\ EnvChange("add", p)
       \/ \E t \in Reflagged, f \in FlagChoices :
             f # userFlags[t] /\ EnvChange("flags", << t, f >>)
       \/ \E a \in ArgChoices :
             /\ a # cmdArgs
             /\ mainpc = "done" \/ a \notin ValidArgs \/ cmdArgs \notin ValidArgs
             /\ EnvChange("args", a)
       \/ \E p \in DOMAIN fs :
             /\ strEndsWithDotExt(p, "obj")
             /\ p[Len(p) - 1] \in Cleanable
             /\ EnvChange("clean", p)
       \/ \E p \in LogFiles(fs) : EnvChange("header", p)
    /\ mainpc' = "start"
    /\ project' = [compileOutDir |-> <<>>, compiler |-> "Gcc", release |-> FALSE]
    /\ prevCompileLog' = <<>>
    /\ thisCompileLog' = <<>>
    /\ threadMode' = "Multi"
    /\ notDownloaded' = [t \in LibNames |-> FALSE]
    /\ compileStatus' = [t \in LibNames |-> "NotLaunched"]
    /\ pl' = [t \in LibNames |-> plInit]
    /\ mainExec' = {}
    /\ removed' = {}
    /\ faults' = 0
    /\ UNCHANGED << dirs, call, ioMayFail >>

Next ==
    \/ main
    \/ \E name \in LibNames : compileStaticLib(name)
    \/ \E name \in LibNames : ChildProcess(name)
    \/ NextRun

Spec == Init /\ [][Next]_vars

(* ------------------- three runs, one source edited -------------------- *)

\* The runs of the specification below.
MaxEditRuns == 3

\* The source file that is edited, and possibly edited back, between runs.
EditedSource == <<"root", "B", "src", "m", "cc">>

\* The first run is a build with gcc, debug.
InitEdits ==
    /\ Init
    /\ cmdArgs = <<"build", "gcc", "debug">>

\* The next run starts after the content of the source has been changed to
\* another of its versions.
NextRunEdits ==
    /\ mainpc \in {"done", "aborted"}
    /\ now < MaxEditRuns
    /\ now' = now + 1
    /\ EditedSource \in DOMAIN srcTree
    /\ \E v \in 1..MaxHash :
          v # srcTree[EditedSource] /\ EnvChange("edit", << v >> \o EditedSource)
    /\ mainpc' = "start"
    /\ project' = [compileOutDir |-> <<>>, compiler |-> "Gcc", release |-> FALSE]
    /\ prevCompileLog' = <<>>
    /\ thisCompileLog' = <<>>
    /\ threadMode' = "Multi"
    /\ notDownloaded' = [t \in LibNames |-> FALSE]
    /\ compileStatus' = [t \in LibNames |-> "NotLaunched"]
    /\ pl' = [t \in LibNames |-> plInit]
    /\ mainExec' = {}
    /\ removed' = {}
    /\ faults' = 0
    /\ UNCHANGED << dirs, call, ioMayFail >>

NextEdits ==
    \/ main
    \/ \E name \in LibNames : compileStaticLib(name)
    \/ \E name \in LibNames : ChildProcess(name)
    \/ NextRunEdits

SpecEdits == InitEdits /\ [][NextEdits]_vars

(* ------------------- file operations that can fail -------------------- *)

\* The build has never run, and reading the log file, writing it and hashing
\* a preprocessed file can fail.
InitIO ==
    /\ NeverRun
    /\ cmdArgs = <<"build", "gcc", "debug">>
    /\ ioMayFail = TRUE

\* The next run starts on the machine as the run before left it.
NextRunAgain ==
    /\ NextRun
    /\ prevRun'.change = "none"

NextAgain ==
    \/ main
    \/ \E name \in LibNames : compileStaticLib(name)
    \/ \E name \in LibNames : ChildProcess(name)
    \/ NextRunAgain

SpecIO == InitIO /\ [][NextAgain]_vars

(* ------------------------ scheduling and exits ------------------------ *)

\* The worker of every job keeps running, every child process that was
\* launched exits, and prb_execJobs returns once every job has ended.
Fairness ==
    /\ WF_vars(MainJobsReturn)
    /\ \A name \in LibNames : WF_vars(compileStaticLib(name))
    /\ \A name \in LibNames : WF_vars(ChildProcess(name))

SpecLive == Init /\ [][NextAgain]_vars /\ Fairness

(* ----------------------- functions on their own ----------------------- *)

\* The arguments constructCompileCmd is called with: every compiler, both
\* build types, inputs and outputs of every kind of extension the program
\* uses, link flags empty or not.
CallCompilers == {"Gcc", "Clang", "Msvc"}

CallInputs ==
    { << <<"root", "example", "c">> >>,
      << <<"out", "x", "i">> >>,
      << <<"out", "y", "ii">> >>,
      << <<"root", "packtab", "c">>, <<"root", "gen", "c">> >> }

CallOutputs ==
    { <<"out", "example", "i">>, <<"out", "y", "ii">>,
      <<"out", "example", "obj">>, <<"out", "example", "bin">> }

CallLinkFlags == { <<>>, << <<"-lm">> >>, << <<"-lX11">>, <<"-lm">> >> }

CompileCmdCalls ==
    [fn : {"constructCompileCmd"},
     pc : {"called"},
     project : [compileOutDir : { <<"out">> }, compiler : CallCompilers, release : BOOLEAN],
     flags : { << <<"-Wall">> >> },
     inputPath : CallInputs,
     outputPath : CallOutputs,
     linkFlags : CallLinkFlags,
     result : { <<>> }]

\* The logs writeLog is called with: object paths and commands with and
\* without a quote or a line end in them, hashes of one hexadecimal digit.
CallKeys ==
    { Str(<<"out", "A", "x", "obj">>), Str(<<"out", "B", "m", "obj">>),
      << <<"out">>, Quote, <<"n", "obj">> >> }

CallCmds ==
    { << <<"gcc">>, <<"-g">>, <<"-c">> >>,
      << <<"gcc">>, <<"-DS=">>, Quote, <<"s">>, Quote >>,
      << <<"gcc">>, Newline, <<"-c">> >> }

CallHashes == {0, 11}

CallLogs ==
    UNION { [keys -> [compileCmd : CallCmds, preprocessedHash : CallHashes]] :
              keys \in SUBSET CallKeys }

LogCalls ==
    [fn : {"log"},
     pc : {"called"},
     log : CallLogs,
     text : { <<>> },
     changed : {"no"},
     result : { [log |-> <<>>, success |-> FALSE] }]

\* The input paths the two output paths of the pipeline are derived from:
\* two at a time, of different names, of the same name in two directories,
\* of the same stem with two extensions.
CallSources ==
    { <<"root", "A", "lib", "x", "c">>, <<"root", "A", "lib", "y", "c">>,
      <<"root", "A", "src", "x", "c">>, <<"root", "A", "lib", "x", "cc">> }

OutputPathCalls ==
    [fn : {"outputPaths"},
     pc : {"called"},
     name : LibNames,
     inputPaths : {pair \in CallSources \X CallSources : pair[1] # pair[2]},
     result : { <<>> }]

\* The source patterns a target is configured with: the ones of main(), and
\* lists in which two patterns match the same file.
CallPatterns ==
    { LibSources(name) : name \in LibNames }
      \cup { << <<"lib", "*", "c">>, <<"lib", "x", "c">> >>,
             << <<"src", "*", "cc">>, <<"src", "m", "cc">> >>,
             << <<"src", "n", "cc">>, <<"src", "n", "cc">> >> }

GlobCalls ==
    [fn : {"glob"},
     pc : {"called"},
     name : LibNames,
     sources : CallPatterns,
     result : { <<>> }]

\* A machine on which nothing was built, with the sources of the libraries
\* in their download directories, and one call about to be made.
InitCalls ==
    /\ call \in CompileCmdCalls \cup LogCalls \cup OutputPathCalls \cup GlobCalls
    /\ fs = [p \in {commonH} |-> [mtime |-> 1, data |-> patchPattern]]
    /\ dirs = {rootDir} \cup {downloadDir(name) : name \in LibNames}
    /\ srcTree = [p \in SourceUniverse |-> 1]
    /\ userFlags = [t \in LibNames |-> << <<"-DV1">> >>]
    /\ now = 1
    /\ cmdArgs = <<"build", "gcc", "debug">>
    /\ prevRun = [ok |-> FALSE, change |-> "first", what |-> <<>>]
    /\ ioMayFail = FALSE
    /\ RunInit

\* constructCompileCmd is called: it returns a command, or one of its
\* assertions fails.
CallConstructCompileCmd ==
    /\ call.fn = "constructCompileCmd"
    /\ call.pc = "called"
    /\ call' =
          IF constructCompileCmdAsserts(call.inputPath, call.outputPath)
          THEN [call EXCEPT !.pc = "asserted"]
          ELSE [call EXCEPT
                  !.pc = "returned",
                  !.result = constructCompileCmd(call.project, call.flags, call.inputPath,
                                                 call.outputPath, call.linkFlags)]
    /\ UNCHANGED << fs, dirs, srcTree, userFlags, now, cmdArgs, mainpc, project,
                    prevCompileLog, thisCompileLog, threadMode, notDownloaded,
                    compileStatus, pl, mainExec, removed, faults, prevRun, ioMayFail >>

\* writeLog is called: the text of the log file.
CallWriteLog ==
    /\ call.fn = "log"
    /\ call.pc = "called"
    /\ call' = [call EXCEPT !.pc = "written", !.text = writeLog(call.log, logColumnNames)]
    /\ UNCHANGED << fs, dirs, srcTree, userFlags, now, cmdArgs, mainpc, project,
                    prevCompileLog, thisCompileLog, threadMode, notDownloaded,
                    compileStatus, pl, mainExec, removed, faults, prevRun, ioMayFail >>

\* A row of a log file after something else than the program has changed
\* it: its third field dropped, its third field no number, a fourth field.
ChangedRow(line, change) ==
    LET strings == get3StrInQuotes(line).strings
        field(str) == << Quote >> \o str \o << Quote >>
    IN  CASE change = "short" -> field(strings[1]) \o << Comma >> \o field(strings[2])
          [] change = "hash" ->
               field(strings[1]) \o << Comma >> \o field(strings[2]) \o << Comma >>
                 \o field(Str(<<"zz">>))
          [] change = "extra" -> line \o << Comma >> \o field(Str(<<"x">>))

\* Between the writing and the reading of the log file, one of its rows is
\* changed.
ChangeLogText ==
    /\ call.fn = "log"
    /\ call.pc = "written"
    /\ call.changed = "no"
    /\ LET lines == Lines(call.text)
       IN  \E row \in 2..Len(lines), change \in {"short", "hash", "extra"} :
              /\ get3StrInQuotes(lines[row]).success
              /\ call' = [call EXCEPT
                    !.changed = change,
                    !.text = Flatten([k \in 1..Len(lines) |->
                                (IF k = row THEN ChangedRow(lines[k], change) ELSE lines[k])
                                  \o << Newline >>])]
    /\ UNCHANGED << fs, dirs, srcTree, userFlags, now, cmdArgs, mainpc, project,
                    prevCompileLog, thisCompileLog, threadMode, notDownloaded,
                    compileStatus, pl, mainExec, removed, faults, prevRun, ioMayFail >>

\* The text is read as main() reads the log file: parseLog, and its log
\* becomes the previous log when it succeeded.
CallParseLog ==
    /\ call.fn = "log"
    /\ call.pc = "written"
    /\ LET prevLogParsed == parseLog(call.text, logColumnNames)
       IN  /\ call' = [call EXCEPT !.pc = "parsed", !.result = prevLogParsed]
           /\ prevCompileLog' =
                 IF prevLogParsed.success THEN prevLogParsed.log ELSE prevCompileLog
    /\ UNCHANGED << fs, dirs, srcTree, userFlags, now, cmdArgs, mainpc, project,
                    thisCompileLog, threadMode, notDownloaded,
                    compileStatus, pl, mainExec, removed, faults, prevRun, ioMayFail >>

\* The two output paths compileStaticLib derives from each input path.
CallOutputPaths ==
    /\ call.fn = "outputPaths"
    /\ call.pc = "called"
    /\ call' = [call EXCEPT
          !.pc = "returned",
          !.result =
             [k \in 1..Len(call.inputPaths) |->
                [outputPreprocessFilepath |->
                    outputPreprocessFilepath(call.name, call.inputPaths[k]),
                 outputObjFilepath |-> outputObjFilepath(call.name, call.inputPaths[k])]]]
    /\ UNCHANGED << fs, dirs, srcTree, userFlags, now, cmdArgs, mainpc, project,
                    prevCompileLog, thisCompileLog, threadMode, notDownloaded,
                    compileStatus, pl, mainExec, removed, faults, prevRun, ioMayFail >>

\* The expansion of the source patterns as compileStaticLib makes it: the
\* matches of each pattern, one pattern after the other.
CallGlob ==
    /\ call.fn = "glob"
    /\ call.pc = "called"
    /\ call' = [call EXCEPT
          !.pc = "returned",
          !.result = Flatten([srcIndex \in 1..Len(call.sources) |->
                         GlobMatches(downloadDir(call.name), call.sources[srcIndex])])]
    /\ UNCHANGED << fs, dirs, srcTree, userFlags, now, cmdArgs, mainpc, project,
                    prevCompileLog, thisCompileLog, threadMode, notDownloaded,
                    compileStatus, pl, mainExec, removed, faults, prevRun, ioMayFail >>

NextCalls ==
    \/ CallOutputPaths
    \/ CallGlob
    \/ CallConstructCompileCmd
    \/ CallWriteLog
    \/ ChangeLogText
    \/ CallParseLog

SpecCalls == InitCalls /\ [][NextCalls]_vars

(* ------------------------------ properties ---------------------------- *)

Terminal == {"CompletedSuccess", "CompletedFailed"}

\* The positions of main() after prb_execJobs has returned.
AfterJobs ==
    {"checkStatus", "mainPreprocess", "mainCompile", "mainCompileWait", "mainLink",
     "mainLinkWait", "mainPreprocessWait", "writeLog", "done"}

\* The input the compile loop of `name` has just decided, its object, and
\* the command and the hash computed afresh for it.
DecidedInput(name) == pl[name].inputPaths[pl[name].i]

DecidedObj(name) == outputObjFilepath(name, DecidedInput(name))

FreshCmd(name) ==
    constructCompileCmd(project, compileFlags(name), << DecidedInput(name) >>,
                        DecidedObj(name), <<>>)

FreshHash(name) == fs[pl[name].outputPreprocess[pl[name].i]].data

PrevEntry(name) == Str(DecidedObj(name)) \in DOMAIN prevCompileLog

StoredHashEqual(name) ==
    PrevEntry(name) /\ prevCompileLog[Str(DecidedObj(name))].preprocessedHash = FreshHash(name)

StoredCmdEqual(name) ==
    PrevEntry(name) /\ prevCompileLog[Str(DecidedObj(name))].compileCmd = FreshCmd(name)

\* A compile process was launched for the input just decided.
CompileLaunched(name) ==
    \E k \in 1..Len(pl[name].processesCompile) :
        /\ pl[name].processesCompile[k].input = pl[name].i
        /\ pl[name].processesCompile[k].cmd = FreshCmd(name)

\* The object paths of the current inputs of `name`.
CurrentObjs(name) ==
    {outputObjFilepath(name, pl[name].inputPaths[k]) : k \in 1..Len(pl[name].inputPaths)}

\* C1 as stated: for every input of a target whose preprocess batch
\* succeeded, the compile is skipped if and only if the previous log has an
\* entry for the object path with the fresh hash and the fresh command, and
\* nothing else influences the decision.
C1_AsStated ==
    \A name \in LibNames :
        pl[name].pc = "LogInsert" =>
            (~CompileLaunched(name)
                <=> PrevEntry(name) /\ StoredHashEqual(name) /\ StoredCmdEqual(name))

\* C1: for every input of a target whose preprocess batch succeeded, the
\* compile is skipped if and only if the previous log has an entry for the
\* object path with the fresh hash and the fresh command and the object
\* file was on disk when the decision was made.
C1_HitTest ==
    \A name \in LibNames :
        pl[name].pc = "LogInsert" =>
            (~CompileLaunched(name)
                <=> /\ PrevEntry(name)
                    /\ StoredHashEqual(name)
                    /\ StoredCmdEqual(name)
                    /\ Last(pl[name].objWasFile))

\* An input is skipped in a later run: a hit.
C1_Witness ==
    \E name \in LibNames :
        /\ pl[name].pc = "LogInsert"
        /\ ~CompileLaunched(name)
        /\ StoredHashEqual(name)
        /\ StoredCmdEqual(name)

\* C2: an input whose object path has no entry in the previous log, or whose
\* stored hash differs from the fresh hash, or whose stored command differs
\* from the fresh command, gets a compile process launched with the fresh
\* command.
C2_MismatchRecompiles ==
    \A name \in LibNames :
        (/\ pl[name].pc = "LogInsert"
         /\ (~PrevEntry(name) \/ ~StoredHashEqual(name) \/ ~StoredCmdEqual(name)))
            => CompileLaunched(name)

\* An input whose object is on disk with the stored hash is compiled again
\* because the command alone has changed.
C2_Witness ==
    \E name \in LibNames :
        /\ pl[name].pc = "LogInsert"
        /\ Last(pl[name].objWasFile)
        /\ StoredHashEqual(name)
        /\ ~StoredCmdEqual(name)
        /\ CompileLaunched(name)

\* Exactly one preprocess process per input of `name`.
OnePreprocessPerInput(name) ==
    \A i \in 1..Len(pl[name].inputPaths) :
        Cardinality({k \in 1..Len(pl[name].processesPreprocess) :
                        pl[name].processesPreprocess[k].input = i}) = 1

\* C3 as stated: a run that follows a successful run with nothing changed
\* launches one preprocess per input, no compile and no archiver, for every
\* target.
C3_Idempotent ==
    (now > 1 /\ prevRun.ok /\ prevRun.change = "none") =>
        \A name \in LibNames :
            /\ Len(pl[name].processesCompile) = 0
            /\ pl[name].libHandle = "NotLaunched"
            /\ pl[name].pc = "Done" => OnePreprocessPerInput(name)

\* C4: when the preprocess batch of a pipeline succeeded, at its end every
\* object found in the object directory that is not the object of a current
\* input is gone, no object of a current input was removed, and the
\* archiver, if it ran, was given objects of current inputs only.
C4_Eviction ==
    \A name \in LibNames :
        (pl[name].pc \in {"End", "Done"} /\ pl[name].preprocessStatus = "Success") =>
            /\ \A p \in DOMAIN pl[name].existingObjs \ CurrentObjs(name) : ~prb_isFile(p)
            /\ CurrentObjs(name) \cap removed = {}
            /\ {pl[name].libCmd[k] : k \in 4..Len(pl[name].libCmd)} \subseteq CurrentObjs(name)

\* A pipeline ends after it found the object of a source that is no longer
\* an input.
C4_Witness ==
    \E name \in LibNames :
        /\ pl[name].pc = "Done"
        /\ pl[name].preprocessStatus = "Success"
        /\ DOMAIN pl[name].existingObjs \ CurrentObjs(name) # {}
        /\ DOMAIN pl[name].existingObjs \cap CurrentObjs(name) # {}

\* The archive of `name` differs between this state and the next.
LibFileChanges(name) ==
    \/ prb_isFile(libFile(name)) # (libFile(name) \in DOMAIN fs')
    \/ prb_isFile(libFile(name)) /\ fs'[libFile(name)] # fs[libFile(name)]

\* C5: after a successful compile batch the archiver is launched, once and
\* after the old archive is removed, when the archive is absent or an object
\* of a current input is strictly newer than it; otherwise it is not
\* launched and the archive stays as it is.
C5_ArchiveDecision ==
    [][\A name \in LibNames :
        now' = now =>
          /\ (pl[name].pc = "Archive" /\ pl'[name].pc # "Archive") =>
                IF \/ ~prb_isFile(libFile(name))
                   \/ \E p \in CurrentObjs(name) : fs[p].mtime > fs[libFile(name)].mtime
                THEN /\ pl[name].libHandle = "NotLaunched"
                     /\ pl'[name].libHandle = "Launched"
                     /\ libFile(name) \notin DOMAIN fs'
                     /\ pl'[name].pc = "WaitLib"
                ELSE /\ pl'[name].libHandle = "NotLaunched"
                     /\ ~LibFileChanges(name)
                     /\ pl'[name].pc = "End"
          /\ pl'[name].libHandle # pl[name].libHandle =>
                \/ pl[name].pc = "Archive" /\ pl[name].libHandle = "NotLaunched"
                \/ pl[name].pc = "WaitLib" /\ pl[name].libHandle = "Launched"
          /\ LibFileChanges(name) =>
                \/ pl[name].pc = "Archive"
                \/ pl[name].pc = "WaitLib" /\ pl[name].libHandle = "Launched"
      ]_vars

\* A pipeline whose objects are all not newer than the archive leaves the
\* archive alone.
C5_Witness ==
    \E name \in LibNames :
        /\ pl[name].pc = "End"
        /\ pl[name].compileStatus = "Success"
        /\ pl[name].libHandle = "NotLaunched"
        /\ prb_isFile(libFile(name))
        /\ fs[libFile(name)].mtime < now

\* Every input of `name` was compiled and the archiver has run with success.
CompiledAndArchived(name) ==
    /\ \A i \in 1..Len(pl[name].inputPaths) :
          \E k \in 1..Len(pl[name].processesCompile) : pl[name].processesCompile[k].input = i
    /\ pl[name].libHandle = "CompletedSuccess"

\* C6 as stated: the first run compiles and archives both targets; when only
\* a source of B is edited after it, the second run launches no compile and
\* no archiver for A, and a compile and one archiver for B.
C6_Independent ==
    /\ (prevRun.change = "first" /\ mainpc = "done") =>
          \A name \in LibNames : CompiledAndArchived(name)
    /\ (/\ now > 1
        /\ prevRun.ok
        /\ prevRun.change = "edit"
        /\ prevRun.what[3] = "B"
        /\ mainpc = "done") =>
          /\ Len(pl["A"].processesCompile) = 0
          /\ pl["A"].libHandle = "NotLaunched"
          /\ Len(pl["B"].processesCompile) >= 1
          /\ pl["B"].libHandle = "CompletedSuccess"

\* C7: within a run the status of a target only moves from NotLaunched to
\* Launched, when its pipeline starts, and from Launched to CompletedSuccess
\* or CompletedFailed, when its pipeline ends; a pipeline that has started
\* is not NotLaunched, and a terminal status marks a pipeline that is over.
C7_StatusMachine ==
    [][\A name \in LibNames :
        now' = now =>
          /\ compileStatus'[name] # compileStatus[name] =>
                \/ /\ compileStatus[name] = "NotLaunched"
                   /\ compileStatus'[name] = "Launched"
                   /\ pl[name].pc = "NotStarted"
                   /\ pl'[name].pc # "NotStarted"
                \/ /\ compileStatus[name] = "Launched"
                   /\ compileStatus'[name] \in Terminal
                   /\ pl[name].pc = "End"
                   /\ pl'[name].pc = "Done"
          /\ pl'[name].pc # "NotStarted" => compileStatus'[name] # "NotLaunched"
          /\ pl'[name].pc = "Done" <=> compileStatus'[name] \in Terminal
      ]_vars

\* A pipeline has gone through NotLaunched, Launched and CompletedFailed.
C7_Witness ==
    \E name \in LibNames :
        /\ pl[name].pc = "Done"
        /\ compileStatus[name] = "CompletedFailed"
        /\ pl[name].processesPreprocess # <<>>

\* C8: when compileStaticLib has returned, the status is CompletedSuccess
\* if and only if the preprocess batch, the compile batch and the archive
\* stage (a skipped archive included) all succeeded, and CompletedFailed
\* otherwise.
C8_FinalStatus ==
    \A name \in LibNames :
        pl[name].pc = "Done" =>
            /\ compileStatus[name] \in Terminal
            /\ compileStatus[name] = "CompletedSuccess"
                  <=> /\ pl[name].preprocessStatus = "Success"
                      /\ pl[name].compileStatus = "Success"
                      /\ pl[name].libStatus = "Success"

\* A pipeline returns CompletedFailed because its compile batch failed after
\* its preprocess batch succeeded; another returns CompletedSuccess with
\* its archive skipped.
C8_Witness ==
    \E name \in LibNames, other \in LibNames :
        /\ pl[name].pc = "Done"
        /\ pl[name].preprocessStatus = "Success"
        /\ pl[name].compileStatus = "Failure"
        /\ compileStatus[name] = "CompletedFailed"
        /\ pl[other].pc = "Done"
        /\ pl[other].libHandle = "NotLaunched"
        /\ compileStatus[other] = "CompletedSuccess"

\* C9: within a run a pipeline that has started never starts again, and
\* main() is past prb_execJobs, where it asserts the statuses, only when
\* every pipeline has run to its end and every status is terminal.
C9_Scheduler ==
    [][now' = now =>
          /\ \A name \in LibNames :
                pl[name].pc # "NotStarted" => pl'[name].pc # "NotStarted"
          /\ mainpc' \in AfterJobs =>
                \A name \in LibNames :
                    pl'[name].pc = "Done" /\ compileStatus'[name] \in Terminal
      ]_vars

\* The serial scheduler has returned with one target failed.
C9_Witness ==
    /\ mainpc = "checkStatus"
    /\ threadMode = "Single"
    /\ \E name \in LibNames : compileStatus[name] = "CompletedFailed"
    /\ \E name \in LibNames : compileStatus[name] = "CompletedSuccess"

\* C10: once a target is CompletedFailed, main() gets no further than the
\* status assertions: none of the main-program commands is launched and
\* the log file is not written in this run.
C10_NoSalvage ==
    (\E name \in LibNames : compileStatus[name] = "CompletedFailed") =>
        /\ mainpc \in {"execJobs", "checkStatus", "aborted"}
        /\ mainExec \cap {"mainPreprocess", "mainCompile", "mainLink"} = {}
        /\ prb_isFile(buildLogPath) => fs[buildLogPath].mtime < now

\* A run with a failed target has aborted and the log file of the run
\* before it is still there.
C10_Witness ==
    /\ mainpc = "aborted"
    /\ \E name \in LibNames : compileStatus[name] = "CompletedFailed"
    /\ prb_isFile(buildLogPath)

\* The entry the compile loop of `name` records for input `k`.
FreshEntry(name, k) ==
    [compileCmd |-> constructCompileCmd(project, compileFlags(name),
                        << pl[name].inputPaths[k] >>,
                        outputObjFilepath(name, pl[name].inputPaths[k]), <<>>),
     preprocessedHash |-> fs[pl[name].outputPreprocess[k]].data]

\* C11 as stated: once the workers have joined, the log of this run holds an
\* entry for the object of every input of every target whose preprocess
\* batch succeeded: no insert is lost under any interleaving.
C11_NoLostInsert ==
    mainpc \in AfterJobs =>
        \A name \in LibNames :
            pl[name].preprocessStatus = "Success" =>
                \A obj \in CurrentObjs(name) : Str(obj) \in DOMAIN thisCompileLog

\* C13 as stated: after the compile loop of a pipeline whose preprocess
\* batch succeeded, the log of this run holds, for every input, an entry
\* under its object path with the command synthesized for it and the fresh
\* hash of its preprocessed form, hit or miss.
C13_EntryCarried ==
    \A name \in LibNames :
        (/\ pl[name].preprocessStatus = "Success"
         /\ pl[name].pc \in {"Evict", "WaitCompile", "Archive", "WaitLib", "End", "Done"}) =>
            \A k \in 1..Len(pl[name].inputPaths) :
                LET key == Str(outputObjFilepath(name, pl[name].inputPaths[k]))
                IN  /\ key \in DOMAIN thisCompileLog
                    /\ thisCompileLog[key] = FreshEntry(name, k)

\* Every source pattern of `name` matches no file.
GlobEmpty(name) ==
    \A srcIndex \in 1..Len(LibSources(name)) :
        GlobMatches(downloadDir(name), LibSources(name)[srcIndex]) = <<>>

\* The pipeline of `name` has launched no process.
NoChildOf(name) ==
    /\ pl[name].processesPreprocess = <<>>
    /\ pl[name].processesCompile = <<>>
    /\ pl[name].libHandle = "NotLaunched"

\* C12 as stated: when the run has aborted on a target whose source
\* patterns match nothing, no process at all has been launched, neither by
\* main() nor by the pipeline of any target.
C12_AsStated ==
    (mainpc = "aborted" /\ \E name \in LibNames : pl[name].pc = "Glob" /\ GlobEmpty(name)) =>
        /\ mainExec = {}
        /\ \A name \in LibNames : NoChildOf(name)

\* C12: the pipeline of a target whose source patterns match nothing never
\* gets past the expansion of the patterns and launches no process of its
\* own, and main() never gets past prb_execJobs.
C12_FatalEmptyGlob ==
    \A name \in LibNames :
        GlobEmpty(name) =>
            /\ pl[name].pc \in {"NotStarted", "Glob"}
            /\ NoChildOf(name)
            /\ mainpc \notin AfterJobs

\* The run has aborted on a target without inputs while the pipeline of
\* another target had children running.
C12_Witness ==
    /\ mainpc = "aborted"
    /\ \E name \in LibNames, other \in LibNames :
          /\ pl[name].pc = "Glob"
          /\ GlobEmpty(name)
          /\ NoChildOf(name)
          /\ ~NoChildOf(other)

\* A log file differs between this state and the next.
LogFileChanges ==
    \E p \in LogFiles(fs) \cup LogFiles(fs') :
        p \notin DOMAIN fs \/ p \notin DOMAIN fs' \/ fs'[p] # fs[p]

\* C14: within a run main() loads the log file once, before any pipeline
\* has started, and the log file is written once, by main() after every
\* pipeline has ended; no step of a pipeline changes the log file or the
\* loaded log.
C14_LoadOnceWriteOnce ==
    [][now' = now =>
          /\ (mainpc = "readLog" /\ mainpc' # "readLog") =>
                \A name \in LibNames : pl[name].pc = "NotStarted"
          /\ mainpc' = "readLog" => mainpc \in {"start", "readLog"}
          /\ prevCompileLog' # prevCompileLog => mainpc = "readLog"
          /\ LogFileChanges =>
                /\ mainpc = "writeLog"
                /\ mainpc' = "done"
                /\ \A name \in LibNames : pl[name].pc = "Done"
          /\ mainpc = "done" => mainpc' = "done"
          /\ pl' # pl => ~LogFileChanges /\ prevCompileLog' = prevCompileLog
      ]_vars

\* A run that loaded the log of the run before it has written its own.
C14_Witness ==
    /\ mainpc = "done"
    /\ prevCompileLog # <<>>
    /\ prb_isFile(buildLogPath)
    /\ fs[buildLogPath].mtime = now

\* The header row of a log text is the three column names in their order.
HeaderExpected(str) ==
    /\ Lines(str) # <<>>
    /\ get3StrInQuotes(Lines(str)[1]).success
    /\ get3StrInQuotes(Lines(str)[1]).strings = logColumnNames

\* The log file of this run is missing or its header row is not the
\* expected one.
LogRejected ==
    \/ ~prb_isFile(buildLogPath)
    \/ ~HeaderExpected(fs[buildLogPath].data)

\* The positions of main() between the reading and the writing of the log.
LogIsPrevious == {"start", "done"}

Unquoted(str) == \A i \in 1..Len(str) : str[i] \notin {Quote, Newline}

\* A log whose object paths and commands have no quote and no line end.
CleanLog(log) == \A key \in DOMAIN log : Unquoted(key) /\ Unquoted(log[key].compileCmd)

\* The number of quote characters of a line.
QuoteCount(line) == Cardinality({i \in 1..Len(line) : line[i] = Quote})

\* A row that is three quoted fields, no more and no less.
ThreeQuotedFields(line) == QuoteCount(line) = 6

\* The data rows of the text that was read.
DataRows == {k \in 2..Len(Lines(call.text)) : TRUE}

\* The text of a clean log, possibly with one row changed, has been read.
LogWasRead == call.fn = "log" /\ call.pc = "parsed" /\ CleanLog(call.log)

\* C16 as stated: when one data row of the file is not exactly three quoted
\* fields, loading fails and the previous log stays empty; and when loading
\* succeeded, every data row of the file has its entry in the previous log.
C16_AllOrNothing ==
    LogWasRead =>
        /\ (\E k \in DataRows : ~ThreeQuotedFields(Lines(call.text)[k])) =>
              /\ ~call.result.success
              /\ prevCompileLog = <<>>
        /\ call.result.success =>
              \A k \in DataRows :
                  get3StrInQuotes(Lines(call.text)[k]).strings[1] \in DOMAIN prevCompileLog

\* C17: the text writeLog writes for a log whose object paths and commands
\* have no quote and no line end is read back by parseLog with success, and
\* the log read has the same keys and, for every key, the command and the
\* hash that were written.
C17_RoundTrip ==
    (LogWasRead /\ call.changed = "no") =>
        /\ call.result.success
        /\ DOMAIN call.result.log = DOMAIN call.log
        /\ \A key \in DOMAIN call.log :
              /\ call.result.log[key].compileCmd = call.log[key].compileCmd
              /\ call.result.log[key].preprocessedHash = call.log[key].preprocessedHash

\* A log of two entries with different hashes has been written and read.
C17_Witness ==
    /\ LogWasRead
    /\ call.changed = "no"
    /\ call.result.success
    /\ \E k1 \in DOMAIN call.log, k2 \in DOMAIN call.log :
          call.log[k1].preprocessedHash < call.log[k2].preprocessedHash

\* A path whose extension is that of a preprocessed file.
HasPreprocessedExt(path) == Last(path) \in {"i", "ii"}

\* The flag that makes a compiler stop after preprocessing.
PreprocessOnlyFlag(compiler) == IF compiler = "Msvc" THEN <<"/P">> ELSE <<"-E">>

\* A command has a word.
HasWord(cmd, word) == \E i \in 1..Len(cmd) : cmd[i] = word

\* C18: constructCompileCmd fails an assertion, and returns no command,
\* exactly when its input and its output are both preprocessed files; a
\* command it returns has the preprocess-only flag of the compiler exactly
\* when the output is a preprocessed file.
C18_ModeExclusion ==
    (call.fn = "constructCompileCmd" /\ call.pc # "called") =>
        /\ call.pc = "asserted" <=>
              /\ HasPreprocessedExt(Last(call.inputPath))
              /\ HasPreprocessedExt(call.outputPath)
        /\ call.pc = "returned" =>
              (HasWord(call.result, PreprocessOnlyFlag(call.project.compiler))
                  <=> HasPreprocessedExt(call.outputPath))

\* A call with a preprocessed input and a preprocessed output of different
\* extensions has failed its assertion.
C18_Witness ==
    /\ call.fn = "constructCompileCmd"
    /\ call.pc = "asserted"
    /\ Last(Last(call.inputPath)) = "ii"
    /\ Last(call.outputPath) = "i"

\* The number of places of a command where the words `sub` stand in a row.
Occurrences(cmd, sub) ==
    Cardinality({i \in 1..(Len(cmd) - Len(sub) + 1) : SubSeq(cmd, i, i + Len(sub) - 1) = sub})

\* C19 as stated: a command made with link flags that are not empty ends
\* with these link flags and has them once only, for every compiler.
C19_LinkFlagsOnce ==
    (call.fn = "constructCompileCmd" /\ call.pc = "returned" /\ call.linkFlags # <<>>) =>
        /\ SubSeq(call.result, Len(call.result) - Len(call.linkFlags) + 1, Len(call.result))
              = call.linkFlags
        /\ Occurrences(call.result, call.linkFlags) = 1

\* The commands made with empty link flags that have been launched: the
\* preprocess and the compile commands of the pipelines, the build of the
\* generator, the preprocess and the compile of the main program.
LaunchedWithoutLinkFlags ==
    UNION { {pl[name].processesPreprocess[k].cmd : k \in 1..Len(pl[name].processesPreprocess)}
              \cup {pl[name].processesCompile[k].cmd : k \in 1..Len(pl[name].processesCompile)} :
            name \in LibNames }
      \cup (IF "genTabCompile" \in mainExec THEN {genTabCmd} ELSE {})
      \cup (IF "mainPreprocess" \in mainExec THEN {mainCmdPreprocess} ELSE {})
      \cup (IF "mainCompile" \in mainExec THEN {mainCmdObj} ELSE {})

\* The output a gcc or clang command names: its last word.
OutputOf(cmd) == Last(cmd)

\* C20 as stated: every command made with empty link flags has the
\* preprocess-only flag or the compile-only flag.
C20_AsStated ==
    \A cmd \in LaunchedWithoutLinkFlags :
        HasWord(cmd, <<"-E">>) \/ HasWord(cmd, <<"-c">>)

\* C20: a command made with empty link flags ends with its output; it has
\* the preprocess-only flag exactly when the output is a preprocessed file
\* and the compile-only flag exactly when the output is an object; the
\* build of the generator, whose output is an executable, has neither and
\* is a compile and link.
C20_ModeFollowsOutput ==
    /\ \A cmd \in LaunchedWithoutLinkFlags :
          /\ cmd[Len(cmd) - 1] = <<"-o">>
          /\ HasWord(cmd, <<"-E">>) <=> HasPreprocessedExt(OutputOf(cmd))
          /\ HasWord(cmd, <<"-c">>) <=> Last(OutputOf(cmd)) = "obj"
    /\ "genTabCompile" \in mainExec =>
          /\ OutputOf(genTabCmd) = exeFilename
          /\ ~HasWord(genTabCmd, <<"-E">>)
          /\ ~HasWord(genTabCmd, <<"-c">>)

\* The generator has been built, and a pipeline has launched a preprocess
\* and a compile.
C20_Witness ==
    /\ "genTabCompile" \in mainExec
    /\ \E name \in LibNames :
          /\ pl[name].processesPreprocess # <<>>
          /\ pl[name].processesCompile # <<>>

\* Two arguments after the program name: a compiler of this platform and a
\* build type.
UsageOk ==
    /\ Len(cmdArgs) = 3
    /\ cmdArgs[2] \in {"gcc", "clang"}
    /\ cmdArgs[3] \in {"debug", "release"}

\* The positions of main() before the compiler name has been accepted.
BeforeSetup == {"start", "readLog", "checkCompiler", "aborted"}

\* C21: main() goes on to the setup and the build only with two arguments, a
\* compiler of the platform and a build type; with anything else the run
\* ends in a failed assertion, at the arguments or at the compiler name, and
\* no pipeline is started and no process launched.
C21_Usage ==
    /\ [](~UsageOk =>
            /\ mainpc \in BeforeSetup
            /\ mainExec = {}
            /\ \A name \in LibNames : pl[name].pc = "NotStarted" /\ NoChildOf(name))
    /\ [][/\ (mainpc \in {"start", "checkCompiler"} /\ ~UsageOk /\ now' = now)
                => mainpc' \in {"readLog", "checkCompiler", "aborted"}
          /\ (mainpc = "checkCompiler" /\ ~UsageOk /\ now' = now) => mainpc' = "aborted"
          /\ (mainpc = "start" /\ UsageOk) => mainpc' = "readLog"
          /\ (mainpc = "checkCompiler" /\ UsageOk) => mainpc' = "setup"
       ]_vars

\* After a run that built everything, a run with a compiler of another
\* platform has ended in the failed assertion.
C21_Witness ==
    /\ now > 1
    /\ prevRun.ok
    /\ Len(cmdArgs) = 3
    /\ cmdArgs[2] = "msvc"
    /\ mainpc = "aborted"

\* The positions of a pipeline inside and after its compile loop, before
\* its end.
CompileStage == {"Decide", "LogInsert", "Evict", "WaitCompile", "Archive", "WaitLib"}

\* The pipeline of `name` has hashed an output, decided on an input or
\* launched a compile.
CompileStageBegun(name) ==
    \/ pl[name].pc \in CompileStage
    \/ pl[name].outputObjs # <<>>
    \/ pl[name].objWasFile # <<>>
    \/ pl[name].processesCompile # <<>>

\* C22: a pipeline hashes no preprocessed output, decides on no input and
\* launches no compile before a preprocess process has been launched for
\* every input and every one of them has ended with success.
C22_Barrier ==
    \A name \in LibNames :
        CompileStageBegun(name) =>
            /\ Len(pl[name].processesPreprocess) = Len(pl[name].inputPaths)
            /\ \A k \in 1..Len(pl[name].processesPreprocess) :
                  pl[name].processesPreprocess[k].status = "CompletedSuccess"

\* A pipeline of two inputs is about to decide on its first input.
C22_Witness ==
    \E name \in LibNames :
        /\ pl[name].pc = "Decide"
        /\ pl[name].i = 1
        /\ Len(pl[name].inputPaths) = 2

\* A preprocess process of `name` has failed.
PreprocessFailed(name) ==
    \E k \in 1..Len(pl[name].processesPreprocess) :
        pl[name].processesPreprocess[k].status = "CompletedFailed"

\* The paths of the object directory of `name` that are object files.
IsObjOf(name, path) ==
    /\ Len(path) = Len(objDir(name)) + 2
    /\ prb_getParentDir(path) = objDir(name)
    /\ Last(path) = "obj"

\* C23: a pipeline one of whose preprocess processes has failed launches no
\* compile, puts no entry of an object of its own into the log of this
\* compilation, removes no object file, neither launches the archiver nor
\* removes the archive, and ends CompletedFailed.
C23_PreprocessFailure ==
    \A name \in LibNames :
        PreprocessFailed(name) =>
            /\ pl[name].processesCompile = <<>>
            /\ pl[name].outputObjs = <<>>
            /\ \A key \in DOMAIN thisCompileLog : ~IsObjOf(name, key[1])
            /\ \A path \in removed : ~IsObjOf(name, path)
            /\ pl[name].libHandle = "NotLaunched"
            /\ libFile(name) \notin removed
            /\ pl[name].pc \in {"Preprocess", "WaitPreprocess", "End", "Done"}
            /\ pl[name].pc = "Done" => compileStatus[name] = "CompletedFailed"
            /\ compileStatus[name] # "CompletedSuccess"

\* In a run after a build, a pipeline with objects and an archive on disk
\* has ended after a failed preprocess.
C23_Witness ==
    \E name \in LibNames :
        /\ PreprocessFailed(name)
        /\ pl[name].pc = "Done"
        /\ compileStatus[name] = "CompletedFailed"
        /\ prb_isFile(libFile(name))
        /\ \E path \in DOMAIN fs : IsObjOf(name, path)

\* The objects the pipeline of `name` found in its object directory that no
\* input has claimed, once every input has been decided.
StaleObjs(name) == {p \in DOMAIN pl[name].existingObjs : ~pl[name].existingObjs[p]}

\* The stale objects the pipeline of `name` has removed.
StaleRemoved(name) ==
    IF pl[name].pc \in {"WaitCompile", "Archive", "WaitLib", "End", "Done"}
          /\ pl[name].preprocessStatus = "Success"
    THEN StaleObjs(name) \cap removed
    ELSE {}

\* C24 as stated: stale objects are removed only after the whole batch of
\* compiles has been awaited with success, so a pipeline that has removed a
\* stale object has no compile process that still runs or has failed.
C24_AsStated ==
    \A name \in LibNames :
        StaleRemoved(name) # {} =>
            \A k \in 1..Len(pl[name].processesCompile) :
                pl[name].processesCompile[k].status = "CompletedSuccess"

\* C24: the stale objects are removed right after the compile loop, before
\* the wait for the batch of compiles, whatever becomes of the compiles; the
\* pipeline then waits for the whole batch, and when a compile has failed it
\* neither launches the archiver nor removes the archive and ends
\* CompletedFailed.
C24_EvictThenWait ==
    \A name \in LibNames :
        /\ (pl[name].pc \in {"WaitCompile", "Archive", "WaitLib", "End", "Done"}
              /\ pl[name].preprocessStatus = "Success") =>
                 \A p \in StaleObjs(name) : ~prb_isFile(p)
        /\ pl[name].compileStatus # "None" => AllExited(pl[name].processesCompile)
        /\ pl[name].libHandle # "NotLaunched" =>
              \A k \in 1..Len(pl[name].processesCompile) :
                  pl[name].processesCompile[k].status = "CompletedSuccess"
        /\ pl[name].compileStatus = "Failure" =>
              /\ pl[name].libHandle = "NotLaunched"
              /\ libFile(name) \notin removed
              /\ pl[name].pc \in {"End", "Done"}
              /\ pl[name].pc = "Done" => compileStatus[name] = "CompletedFailed"

\* A pipeline whose compile failed has ended, its stale object removed.
C24_Witness ==
    \E name \in LibNames :
        /\ pl[name].pc = "Done"
        /\ pl[name].compileStatus = "Failure"
        /\ StaleRemoved(name) # {}

\* The positions of a pipeline before its wait for the preprocess batch.
BeforePreprocessWait == {"NotStarted", "Glob", "ScanObjDir", "Preprocess"}

\* The positions of a pipeline before its wait for the compile batch.
BeforeCompileWait == BeforePreprocessWait \cup {"WaitPreprocess", "Decide", "LogInsert", "Evict"}

\* The preprocess loop of `name` has launched a process for each of the
\* inputs before its current one.
LaunchedSoFar(name) == Len(pl[name].processesPreprocess) = pl[name].i - 1

\* C25: at the wait for the preprocess batch a process has been launched for
\* every input, and at the wait for the compile batch every input has been
\* decided; the status of a batch is taken only at its wait, when every
\* process of the batch has exited; a process that has failed does not stop
\* the launch loop, and a pipeline step never changes the status of a child.
C25_BatchLaunch ==
    /\ [](\A name \in LibNames :
            /\ pl[name].pc = "Preprocess" => LaunchedSoFar(name)
            /\ pl[name].pc \notin BeforePreprocessWait =>
                  Len(pl[name].processesPreprocess) = Len(pl[name].inputPaths)
            /\ pl[name].pc \in BeforePreprocessWait \cup {"WaitPreprocess"} =>
                  pl[name].preprocessStatus = "None"
            /\ pl[name].preprocessStatus # "None" => AllExited(pl[name].processesPreprocess)
            /\ (pl[name].pc \in {"Evict", "WaitCompile"}) =>
                  Len(pl[name].outputObjs) = Len(pl[name].inputPaths)
            /\ pl[name].pc \in BeforeCompileWait \cup {"WaitCompile"} =>
                  pl[name].compileStatus = "None"
            /\ pl[name].compileStatus # "None" => AllExited(pl[name].processesCompile))
    /\ [][\A name \in LibNames :
            /\ (now' = now /\ pl[name].pc = "Preprocess" /\ pl'[name] # pl[name]
                  /\ pl'[name].pc # "Preprocess") => pl'[name].pc = "WaitPreprocess"
            /\ (now' = now /\ pl'[name].pc # pl[name].pc) =>
                  /\ \A k \in 1..Len(pl[name].processesPreprocess) :
                        pl'[name].processesPreprocess[k] = pl[name].processesPreprocess[k]
                  /\ \A k \in 1..Len(pl[name].processesCompile) :
                        pl'[name].processesCompile[k] = pl[name].processesCompile[k]
            /\ now' = now =>
                  \A k \in 1..Len(pl[name].processesPreprocess) :
                      pl[name].processesPreprocess[k].status # "Launched" =>
                          pl'[name].processesPreprocess[k] = pl[name].processesPreprocess[k]
         ]_vars

\* A preprocess process has failed while the launch loop has inputs left.
C25_Witness ==
    \E name \in LibNames :
        /\ pl[name].pc = "Preprocess"
        /\ pl[name].i = 2
        /\ pl[name].processesPreprocess[1].status = "CompletedFailed"

\* C26 as stated: whenever a pipeline skips the compile of an input, the
\* object on disk was written by a compile with the command of this run, of
\* a source with the preprocessed hash of this run.
C26_TrustworthySkip ==
    \A name \in LibNames :
        (pl[name].pc = "LogInsert" /\ ~CompileLaunched(name)) =>
            /\ prb_isFile(DecidedObj(name))
            /\ fs[DecidedObj(name)].data.compileCmd = FreshCmd(name)
            /\ fs[DecidedObj(name)].data.preprocessedHash = FreshHash(name)

\* C27 as stated: when a pipeline has ended CompletedSuccess, the archive
\* of its target is on disk and its members are the objects of the current
\* inputs, no more and no less.
C27_ArchiveExact ==
    \A name \in LibNames :
        (pl[name].pc = "Done" /\ compileStatus[name] = "CompletedSuccess") =>
            /\ prb_isFile(libFile(name))
            /\ fs[libFile(name)].data = CurrentObjs(name)

\* C28: an input whose object file is not on disk when it is decided gets a
\* compile launched, whatever the previous log says of it; and at the
\* archive stage every object of the pipeline is on disk.
C28_MissingObjCompiled ==
    \A name \in LibNames :
        /\ (pl[name].pc = "LogInsert" /\ ~Last(pl[name].objWasFile)) => CompileLaunched(name)
        /\ pl[name].pc \in {"Archive", "WaitLib"} =>
              /\ Len(pl[name].outputObjs) = Len(pl[name].inputPaths)
              /\ \A k \in 1..Len(pl[name].outputObjs) : prb_isFile(pl[name].outputObjs[k])

\* A pipeline is at its archive stage with an object that was not on disk
\* when it was decided, although the previous log had its entry with the
\* hash and the command of this run.
C28_Witness ==
    \E name \in LibNames :
        /\ pl[name].pc = "Archive"
        /\ \E k \in 1..Len(pl[name].outputObjs) :
              LET key == Str(pl[name].outputObjs[k])
              IN  /\ ~pl[name].objWasFile[k]
                  /\ key \in DOMAIN prevCompileLog
                  /\ prevCompileLog[key].preprocessedHash = fs[pl[name].outputPreprocess[k]].data
                  /\ prevCompileLog[key].compileCmd =
                        constructCompileCmd(project, compileFlags(name),
                            << pl[name].inputPaths[k] >>, pl[name].outputObjs[k], <<>>)

\* C29 as stated: two different input paths of a target have different
\* object paths and different preprocessed-output paths.
C29_PathsOneToOne ==
    (call.fn = "outputPaths" /\ call.pc = "returned") =>
        /\ call.result[1].outputObjFilepath # call.result[2].outputObjFilepath
        /\ call.result[1].outputPreprocessFilepath # call.result[2].outputPreprocessFilepath

\* C30 as stated: no input path is twice in the list the expansion of the
\* source patterns gives.
C30_NoDuplicateInput ==
    (call.fn = "glob" /\ call.pc = "returned") =>
        \A i \in 1..Len(call.result), j \in 1..Len(call.result) :
            i # j => call.result[i] # call.result[j]

\* The arguments are three and the build type is one of the two.
BuildTypeOk ==
    /\ Len(cmdArgs) = 3
    /\ cmdArgs[3] \in {"debug", "release"}

\* The step of main() that reads the log file of the previous compilation.
ReadsLogFile == mainpc = "readLog" /\ mainpc' # "readLog"

\* C35 as stated: in a run whose compiler name or build type is invalid, no
\* step creates a directory, reads the log file or launches a process.
C35_AsStated ==
    [][(~UsageOk /\ now' = now) =>
          /\ dirs' = dirs
          /\ ~ReadsLogFile
          /\ mainExec' = mainExec
          /\ pl' = pl
      ]_vars

\* C35: a run with a wrong number of arguments or an invalid build type
\* aborts at its first step, with no directory created and the log file not
\* read; a run with a valid build type and an invalid compiler name creates
\* its output directory and reads the log file first, and aborts at the
\* compiler name. No run with invalid arguments changes a file, creates
\* another directory, starts a pipeline or launches a process.
C35_ConfigErrors ==
    [][(~UsageOk /\ now' = now) =>
          /\ fs' = fs
          /\ mainExec' = mainExec
          /\ pl' = pl
          /\ ~BuildTypeOk =>
                /\ mainpc' = "aborted"
                /\ dirs' = dirs
                /\ prevCompileLog' = prevCompileLog
          /\ BuildTypeOk =>
                /\ dirs' \subseteq
                      dirs \cup {prb_pathJoin(rootDir, <<"build", cmdArgs[2], cmdArgs[3]>>)}
                /\ mainpc = "start" =>
                      /\ mainpc' = "readLog"
                      /\ prb_pathJoin(rootDir, <<"build", cmdArgs[2], cmdArgs[3]>>) \in dirs'
                /\ mainpc = "readLog" => mainpc' = "checkCompiler"
                /\ mainpc = "checkCompiler" => mainpc' = "aborted"
      ]_vars

\* A run with an invalid compiler name has aborted and left its output
\* directory behind.
C35_Witness ==
    /\ mainpc = "aborted"
    /\ BuildTypeOk
    /\ ~UsageOk
    /\ project.compileOutDir = prb_pathJoin(rootDir, <<"build", cmdArgs[2], cmdArgs[3]>>)
    /\ project.compileOutDir \in dirs
    /\ \A name \in LibNames : pl[name].pc = "NotStarted"

\* The step in which the read of the existing log file, the write of the log
\* file, or the hash of a preprocessed file fails.
ReadFails == mainpc = "readLog" /\ faults' # faults

WriteFails == mainpc = "writeLog" /\ faults' # faults

HashFails == mainpc = "execJobs" /\ faults' # faults /\ pl' = pl

\* C34 as stated: a failed read of the existing log file, a failed write of
\* the log file and a failed hash of a preprocessed file each abort the run.
C34_AsStated ==
    [][(now' = now /\ (ReadFails \/ WriteFails \/ HashFails)) => mainpc' = "aborted"]_vars

\* C34: a failed write of the log file and a failed hash of a preprocessed
\* file abort the run: main() is done only with the log file written in
\* full, and a compile decision is taken only on the hash of the
\* preprocessed file. A failed read of the existing log file does not abort:
\* main() goes on to the compiler name with the previous log empty.
C34_IoErrors ==
    [][now' = now =>
          /\ ReadFails =>
                /\ prb_isFile(buildLogPath)
                /\ mainpc' = "checkCompiler"
                /\ prevCompileLog' = <<>>
          /\ WriteFails => mainpc' = "aborted"
          /\ HashFails => mainpc' = "aborted"
          /\ (mainpc = "writeLog" /\ mainpc' = "done") =>
                /\ buildLogPath \in DOMAIN fs'
                /\ fs'[buildLogPath] =
                      [mtime |-> now, data |-> writeLog(thisCompileLog, logColumnNames)]
          /\ \A name \in LibNames :
                (pl[name].pc = "Decide" /\ pl'[name].pc = "LogInsert") =>
                    /\ prb_isFile(pl[name].outputPreprocess[pl[name].i])
                    /\ pl'[name].thisObjInfo.preprocessedHash =
                          fs[pl[name].outputPreprocess[pl[name].i]].data
      ]_vars

\* The run after a run that built everything, on a machine left as it was,
\* is done with the previous log empty: the read of the log file failed.
C34_Witness ==
    /\ ioMayFail
    /\ now > 1
    /\ prevRun.ok
    /\ prevRun.change = "none"
    /\ mainpc = "done"
    /\ prevCompileLog = <<>>
    /\ faults = 1
    /\ \A name \in LibNames :
          Len(pl[name].processesCompile) = Len(pl[name].inputPaths)

\* C32 as stated: within a run the previous log is changed by no step after
\* it was loaded, and an entry of the current log, once inserted, stays in
\* it unchanged.
C32_CacheFrame ==
    [][now' = now =>
          /\ prevCompileLog' # prevCompileLog => mainpc = "readLog"
          /\ \A key \in DOMAIN thisCompileLog :
                /\ key \in DOMAIN thisCompileLog'
                /\ thisCompileLog'[key] = thisCompileLog[key]
      ]_vars

\* The file `p` is in the directory `dir` or below it.
Under(p, dir) == Len(p) >= Len(dir) + 2 /\ SubSeq(p, 1, Len(dir)) = dir

\* The files the pipeline of `name` and its children have named so far, to
\* create, overwrite, delete or read them: its inputs and the header they
\* include, its preprocessed outputs, its objects and the objects it found,
\* and its archive.
FilesOf(name) ==
    SeqToSet(pl[name].inputPaths)
      \cup (IF name = "A" /\ pl[name].inputPaths # <<>> THEN {commonH} ELSE {})
      \cup SeqToSet(pl[name].outputPreprocess)
      \cup SeqToSet(pl[name].outputObjs)
      \cup DOMAIN pl[name].existingObjs
      \cup (IF pl[name].pc \in {"Archive", "WaitLib", "End", "Done"} THEN {libFile(name)} ELSE {})

\* The files that differ between this state and the next.
ChangedFiles ==
    {p \in DOMAIN fs \cup DOMAIN fs' :
        p \notin DOMAIN fs \/ p \notin DOMAIN fs' \/ fs'[p] # fs[p]}

\* C31: under every interleaving, the files two pipelines name are
\* different files, no pipeline names a file of the object directory of
\* another, and a step of a pipeline or of one of its children creates,
\* overwrites or deletes only files that pipeline names or files of its own
\* object directory, and creates no directory but its object directory.
C31_Isolation ==
    /\ [](\A name \in LibNames : \A other \in LibNames \ {name} :
            /\ FilesOf(name) \cap FilesOf(other) = {}
            /\ \A p \in FilesOf(other) : ~Under(p, objDir(name)))
    /\ [][\A name \in LibNames :
            (now' = now /\ pl'[name] # pl[name]) =>
                /\ \A p \in ChangedFiles : p \in FilesOf(name)' \/ Under(p, objDir(name))
                /\ dirs' \subseteq dirs \cup {objDir(name)}
         ]_vars

\* In parallel mode both pipelines have removed entries of their object
\* directories, one has made its archive in this run, and the other is still
\* running with children launched.
C31_Witness ==
    /\ threadMode = "Multi"
    /\ \A name \in LibNames : \E p \in removed : Under(p, objDir(name))
    /\ \E name \in LibNames, other \in LibNames :
          /\ name # other
          /\ libFile(name) \in DOMAIN fs
          /\ fs[libFile(name)].mtime = now
          /\ pl[name].libHandle = "CompletedSuccess"
          /\ pl[other].pc \notin {"End", "Done"}
          /\ pl[other].processesPreprocess # <<>>

\* The pipeline of `name` has been entered and has not set its final status.
Running(name) == mainpc = "execJobs" /\ pl[name].pc \notin {"NotStarted", "Done"}

\* A child process of the pipeline of `name` has not exited.
ChildRunning(name) ==
    \/ \E k \in 1..Len(pl[name].processesPreprocess) :
          pl[name].processesPreprocess[k].status = "Launched"
    \/ \E k \in 1..Len(pl[name].processesCompile) :
          pl[name].processesCompile[k].status = "Launched"
    \/ pl[name].libHandle = "Launched"

\* C33: when the workers keep running and every launched child exits, a
\* pipeline that has set Launched sets CompletedSuccess or
\* CompletedFailed, unless the run aborts on an assertion, and prb_execJobs
\* returns, unless the run aborts; and a pipeline that is running and whose
\* worker cannot take a step is at the wait for its preprocess batch or at
\* the wait for its compile batch with a child that has not exited, the
\* archiver call being the only other place where it waits for a child.
C33_Termination ==
    /\ \A name \in LibNames :
          (compileStatus[name] = "Launched")
              ~> (compileStatus[name] \in Terminal \/ mainpc = "aborted")
    /\ (mainpc = "execJobs") ~> (mainpc \in {"checkStatus", "aborted"})
    /\ [](\A name \in LibNames :
            /\ (Running(name) /\ JobRuns(name) /\ ~ENABLED compileStaticLib(name)) =>
                  /\ pl[name].pc \in {"WaitPreprocess", "WaitCompile"}
                  /\ ChildRunning(name)
            /\ (Running(name) /\ ChildRunning(name) /\ ENABLED compileStaticLib(name)) =>
                  pl[name].pc \in {"Preprocess", "Decide", "LogInsert", "Evict", "WaitLib"}
            /\ pl[name].libHandle = "Launched" <=> pl[name].pc = "WaitLib")

\* A pipeline is at the wait for its compile batch with a compile that has
\* not exited, in a run that found the objects of the run before.
C33_Witness ==
    /\ now > 1
    /\ \E name \in LibNames :
          /\ compileStatus[name] = "Launched"
          /\ pl[name].pc = "WaitCompile"
          /\ ChildRunning(name)
          /\ DOMAIN pl[name].existingObjs # {}

====
